---- MODULE Spec2Model ----
(***************************************************************************)
(* Model of the test runner script (scripts.py): the command registry      *)
(* (get_test_commands), the option handling and child process invocation   *)
(* (run_with_options), the usage text (print_help) and the argument        *)
(* handling of the __main__ block.                                         *)
(*                                                                         *)
(* A printed line is a sequence of text fragments: a plain print is one    *)
(* fragment (a row of a table: indentation, name, rest), an f-string is    *)
(* its literal parts and its substituted values in order.                  *)
(***************************************************************************)
EXTENDS Integers, Sequences, FiniteSets, TLC

\* ---- bounds of the model ------------------------------------------------
\* longest command line (sys.argv[1:]) explored
MaxArgs == 4
\* largest exit status of the child process explored (pytest uses 0..5)
MaxStatus == 5
\* calls of get_test_commands made by a caller other than the script
MaxCalls == 2
\* calls of run_with_options made by a caller other than the script
MaxAppends == 2
\* most positional arguments given to learn_print
MaxPrintArgs == 3
\* most lines select_theme reads in one call
MaxPrompts == 3
\* most tests in the class pytest runs
MaxTests == 3
\* largest indent given to print_code_block
MaxIndent == 2

\* words a command line is made of: the subcommands, the flags, two
\* registered mnemonics and one that is not registered
Tokens == {"run", "help", "--headed", "--debug", "all", "basics", "nope"}

\* operating systems told apart by os.name
OsNames == {"nt", "posix"}

VARIABLES
    os_name,      \* os.name of the host
    pytest_found, \* whether the executable command[0] can be located
    argv,         \* sys.argv[1:] as given by the user
    args,         \* the local list args of __main__
    headed,       \* local headed of __main__
    debug,        \* local debug of __main__
    commands,     \* the OrderedDict held by __main__ (its lists are mutable)
    test_name,    \* local test_name of __main__
    command,      \* the list run_with_options works on: the key of the
                  \* entry of commands it aliases, "" outside the call
    run_calls,    \* argument lists handed to subprocess.run, in order
    child,        \* "none", "missing" (no executable), "running", "exited"
    child_status, \* {} until the child has exited, then {its exit status}
    stdout,       \* lines printed so far
    exit_code,    \* {} while the runner runs, {s} once it exited with s
    pc            \* position in the script

\* two callers of get_test_commands and run_with_options other than __main__:
\* the lists live in a heap so that two names for one list can be told from
\* two equal lists
VARIABLES
    heap,         \* the list objects created so far: heap[id] is the content
    tables,       \* the tables returned so far: keys, and the id of each entry
    returned,     \* what each call of get_test_commands returned, as values
    appended      \* number of run_with_options calls made on the tables

runnerVars == <<os_name, pytest_found, argv, args, headed, debug, commands,
                test_name, command, run_calls, child, child_status, stdout,
                exit_code, pc>>

registryVars == <<heap, tables, returned, appended>>

\* the lesson utilities (tests/conftest.py, tests/utils/interactive.py) as the
\* test process uses them. A text is a sequence of symbols: a blank, a
\* newline, a letter typed by the user, or a piece of text without blanks
\* that is never taken apart
VARIABLES
    CURRENT_THEME, \* the module global of tests/utils/interactive.py
    utils_CURRENT_THEME, \* the name CURRENT_THEME of the package tests.utils
    sys_stdout,    \* text written to sys.stdout since it was last read
    sys_stderr,    \* text written to sys.stderr since it was last read
    lpc,           \* "idle", or the input() select_theme is waiting at
    prompts,       \* lines read by select_theme in the current call
    last_call,     \* the call made last and what it was given
    styles         \* the style names the installed Pygments knows

learnVars == <<CURRENT_THEME, utils_CURRENT_THEME, sys_stdout, sys_stderr,
               lpc, prompts, last_call,
               styles>>

\* the state of scripts.py
scriptVars == <<runnerVars, registryVars>>

\* pytest running the tests of one class of test_login_scope.py with the
\* fixture of conftest.py the class uses
VARIABLES
    fixture,      \* "luma_test_page" or "luma_test_class_page"
    n_tests,      \* number of tests of the class
    test_no,      \* the test pytest is at
    fpc,          \* "setup", "call", "teardown", "next" or "finished"
    events,       \* what was done to browser, context and page, in order
    received,     \* for each test whose body ran, the page it was given
    cached,       \* cached result of the class fixture: "none", "value", "error"
    browser,      \* browser launched by the class fixture: "none", "open", "closed"
    context       \* context created by the class fixture, likewise

fixtureVars == <<fixture, n_tests, test_no, fpc, events, received, cached,
                 browser, context>>

\* the state of the test process
testVars == <<learnVars, fixtureVars>>

\* what the script itself never touches
notRunnerVars == <<registryVars, testVars>>

vars == <<scriptVars, testVars>>

\* ---- helpers --------------------------------------------------------------
Range(s) == {s[i] : i \in 1..Len(s)}

\* all sequences over S of length at most n
SeqUpTo(S, n) == UNION {[1..k -> S] : k \in 0..n}

Last(s) == s[Len(s)]

\* x in list
Contains(s, x) == \E i \in 1..Len(s) : s[i] = x

\* sep.join(items), as the fragments of the joined text
RECURSIVE Join(_, _)
Join(items, sep) ==
    IF Len(items) = 0 THEN <<>>
    ELSE IF Len(items) = 1 THEN <<items[1]>>
    ELSE <<items[1], sep>> \o Join(Tail(items), sep)

\* OrderedDict(pairs): a key keeps the position of its first occurrence and
\* the value of its last one
RECURSIVE DictKeys(_)
DictKeys(pairs) ==
    IF Len(pairs) = 0 THEN <<>>
    ELSE LET front == DictKeys(SubSeq(pairs, 1, Len(pairs) - 1))
             k == pairs[Len(pairs)][1]
         IN  IF Contains(front, k) THEN front ELSE Append(front, k)

OrderedDict(pairs) ==
    [keys |-> DictKeys(pairs),
     map  |-> [k \in {pairs[i][1] : i \in 1..Len(pairs)} |->
                 LET last == CHOOSE i \in 1..Len(pairs) :
                                /\ pairs[i][1] = k
                                /\ \A j \in (i + 1)..Len(pairs) : pairs[j][1] # k
                 IN  pairs[last][2]]]

EmptyDict == [keys |-> <<>>, map |-> <<>>]

\* name in commands
InDict(d, name) == name \in DOMAIN d.map

\* ---- get_test_commands ----------------------------------------------------
\* path of pytest inside the virtual environment, as str(Path(...)) gives it
pytest_path(os) ==
    IF os = "nt" THEN "venv\\Scripts\\pytest" ELSE "venv/bin/pytest"

base_cmd(os) == <<pytest_path(os), "-v", "-s">>

\* the (name, invocation) pairs the OrderedDict is built from, in source order
CommandPairs(os) ==
    <<
      <<"all", base_cmd(os) \o <<"tests">>>>,
      <<"interactive", base_cmd(os) \o <<"tests/interactive_examples">>>>,
      <<"test_examples", base_cmd(os) \o <<"tests/test_examples">>>>,
      <<"basics", base_cmd(os) \o <<"tests/test_examples/test_01_basics.py">>>>,
      <<"interactive_basics", base_cmd(os) \o <<"tests/interactive_examples/01_basics.py">>>>,
      <<"data_types", base_cmd(os) \o <<"tests/test_examples/test_02_data_types.py">>>>,
      <<"interactive_data_types", base_cmd(os) \o <<"tests/interactive_examples/02_data_types.py">>>>,
      <<"data_structures", base_cmd(os) \o <<"tests/test_examples/test_03_data_structures.py">>>>,
      <<"interactive_data_structures", base_cmd(os) \o <<"tests/interactive_examples/03_data_structures.py">>>>,
      <<"control_flow", base_cmd(os) \o <<"tests/test_examples/test_04_control_flow.py">>>>,
      <<"interactive_control_flow", base_cmd(os) \o <<"tests/interactive_examples/04_control_flow.py">>>>,
      <<"functions", base_cmd(os) \o <<"tests/test_examples/test_05_functions.py">>>>,
      <<"interactive_functions", base_cmd(os) \o <<"tests/interactive_examples/05_functions.py">>>>,
      <<"oop_basics", base_cmd(os) \o <<"tests/test_examples/test_06_oop_basics.py">>>>,
      <<"interactive_oop_basics", base_cmd(os) \o <<"tests/interactive_examples/06_oop_basics.py">>>>,
      <<"advanced_oop", base_cmd(os) \o <<"tests/test_examples/test_07_advanced_oop.py">>>>,
      <<"interactive_advanced_oop", base_cmd(os) \o <<"tests/interactive_examples/07_advanced_oop.py">>>>,
      <<"modules", base_cmd(os) \o <<"tests/test_examples/test_08_modules_and_packages.py">>>>,
      <<"interactive_modules", base_cmd(os) \o <<"tests/interactive_examples/08_modules_and_packages.py">>>>,
      <<"file_io", base_cmd(os) \o <<"tests/test_examples/test_09_file_io.py">>>>,
      <<"interactive_file_io", base_cmd(os) \o <<"tests/interactive_examples/09_file_io.py">>>>,
      <<"exceptions", base_cmd(os) \o <<"tests/test_examples/test_10_exceptions_handling.py">>>>,
      <<"interactive_exceptions", base_cmd(os) \o <<"tests/interactive_examples/10_exceptions_handling.py">>>>,
      <<"iterators", base_cmd(os) \o <<"tests/test_examples/test_11_iterators_and_generators.py">>>>,
      <<"interactive_iterators", base_cmd(os) \o <<"tests/interactive_examples/11_iterators_and_generators.py">>>>,
      <<"decorators", base_cmd(os) \o <<"tests/test_examples/test_12_decorators_and_context_managers.py">>>>,
      <<"interactive_decorators", base_cmd(os) \o <<"tests/interactive_examples/12_decorators_and_context_managers.py">>>>,
      <<"advanced", base_cmd(os) \o <<"tests/test_examples/test_13_advanced_concepts.py">>>>,
      <<"interactive_advanced", base_cmd(os) \o <<"tests/interactive_examples/13_advanced_concepts.py">>>>,
      <<"stdlib", base_cmd(os) \o <<"tests/test_examples/test_14_standard_library_and_third_party.py">>>>,
      <<"interactive_stdlib", base_cmd(os) \o <<"tests/interactive_examples/14_standard_library_and_third_party.py">>>>,
      <<"pytest_basics", base_cmd(os) \o <<"tests/test_examples/test_15_pytest_basics.py">>>>,
      <<"interactive_pytest", base_cmd(os) \o <<"tests/interactive_examples/15_pytest_basics.py">>>>,
      <<"playwright", base_cmd(os) \o <<"tests/test_examples/test_16_playwright_integration.py">>>>,
      <<"interactive_playwright", base_cmd(os) \o <<"tests/interactive_examples/16_playwright_integration.py">>>>
    >>

\* the table with a second, empty entry for "all" after the others
get_test_commands_EmptyAll(os) ==
    OrderedDict(CommandPairs(os) \o << <<"all", <<>>>> >>)

get_test_commands(os) == OrderedDict(CommandPairs(os))

\* --headed inserted right after the executable instead of appended
command_with_options_HeadedFirst(cmd, h, d) ==
    LET c1 == IF h THEN <<cmd[1], "--headed">> \o Tail(cmd) ELSE cmd
    IN  IF d THEN c1 \o <<"--slowmo", "1000">> ELSE c1

\* the two if statements in the opposite order
command_with_options_DebugFirst(cmd, h, d) ==
    LET c1 == IF d THEN cmd \o <<"--slowmo", "1000">> ELSE cmd
    IN  IF h THEN Append(c1, "--headed") ELSE c1

\* --headed appended whether requested or not
command_with_options_AlwaysHeaded(cmd, h, d) ==
    LET c1 == Append(cmd, "--headed")
    IN  IF d THEN c1 \o <<"--slowmo", "1000">> ELSE c1

\* ---- run_with_options: the flags appended to the command -------------------
command_with_options(cmd, h, d) ==
    LET c1 == IF h THEN Append(cmd, "--headed") ELSE cmd
    IN  IF d THEN c1 \o <<"--slowmo", "1000">> ELSE c1

\* ---- print_help -------------------------------------------------------------
\* a row of the two tables is its indentation, the name it describes and
\* the rest of the line
\* the usage text without the row of --debug
print_help_NoDebug ==
    <<
      <<"\nAvailable commands:">>,
      <<"  run <test>      - Run specified test">>,
      <<"  help           - Show this help message">>,
      <<"\nAvailable tests:">>,
      <<"  ", "all", "            - Run all tests">>,
      <<"  ", "interactive", "    - Run all interactive learning tests">>,
      <<"  ", "test_examples", "  - Run all test examples">>,
      <<"  ", "basics", "         - Run basic Python concepts test">>,
      <<"  ", "data_types", "     - Run data types test">>,
      <<"  ... and more individual tests">>,
      <<"\nOptions:">>,
      <<"  ", "--headed", "       - Run in headed mode">>
    >>

print_help ==
    <<
      <<"\nAvailable commands:">>,
      <<"  run <test>      - Run specified test">>,
      <<"  help           - Show this help message">>,
      <<"\nAvailable tests:">>,
      <<"  ", "all", "            - Run all tests">>,
      <<"  ", "interactive", "    - Run all interactive learning tests">>,
      <<"  ", "test_examples", "  - Run all test examples">>,
      <<"  ", "basics", "         - Run basic Python concepts test">>,
      <<"  ", "data_types", "     - Run data types test">>,
      <<"  ... and more individual tests">>,
      <<"\nOptions:">>,
      <<"  ", "--headed", "       - Run in headed mode">>,
      <<"  ", "--debug", "        - Run in debug mode">>
    >>

\* ---- __main__: argument handling ------------------------------------------
\* help recognised only when it is the whole command line
IsHelp_Exact(a) == a = <<>> \/ a = <<"help">>

\* not args or args[0] == "help"
IsHelp(a) == IF Len(a) = 0 THEN TRUE ELSE a[1] = "help"

\* "--headed" in args, "--debug" in args
HasFlag(a, flag) == Contains(a, flag)

\* flags removed only behind the first two arguments
StripFlags_Trailing(a) ==
    IF Len(a) <= 2 THEN a
    ELSE SubSeq(a, 1, 2) \o
         SelectSeq(SubSeq(a, 3, Len(a)),
                   LAMBDA arg : ~Contains(<<"--headed", "--debug">>, arg))

\* [arg for arg in args if arg not in ["--headed", "--debug"]]
IsPositional(arg) == ~Contains(<<"--headed", "--debug">>, arg)
StripFlags(a) == SelectSeq(a, IsPositional)

\* the test of args[0] left out
IsRun_AnyFirst(a) == Len(a) >= 2

\* len(args) >= 2 and args[0] == "run"
IsRun(a) == IF Len(a) >= 2 THEN a[1] = "run" ELSE FALSE

\* ---- messages ---------------------------------------------------------------
\* the first line without the substitution of the name
not_found_message_NoName(name, d) ==
    << <<"Test 'test_name' not found.">>,
       <<"Available tests: ">> \o Join(d.keys, ", ") >>

\* the two lines printed for a name that is not in commands
not_found_message(name, d) ==
    << <<"Test '", name, "' not found.">>,
       <<"Available tests: ">> \o Join(d.keys, ", ") >>

\* the lines printed when subprocess.run raises FileNotFoundError
pytest_not_found_message(os) ==
    << <<"Error: pytest not found. Make sure you have activated the virtual environment:">>,
       IF os = "nt" THEN <<"  Run: .\\venv\\Scripts\\activate">>
                    ELSE <<"  Run: source venv/bin/activate">> >>

\* the line printed for CalledProcessError e: str(e) names the command and
\* the status the child returned
called_process_error_message(cmd, status) ==
    << <<"Error running tests: ", "Command '">> \o cmd \o
       <<"' returned non-zero exit status ", ToString(status), ".">> >>

\* ---- the state machine ------------------------------------------------------
\* no table has been asked for by a caller other than the script
RegistryIdle ==
    /\ heap = <<>>
    /\ tables = <<>>
    /\ returned = <<>>
    /\ appended = 0

\* the interactive module as it is after import, nothing written, no call
\* made; tests/utils/__init__.py has bound its own name CURRENT_THEME to the
\* value the module global had when it was imported (lines 5-17)
NoCall == [op |-> "none"]

LearnIdle ==
    /\ CURRENT_THEME = "monokai"
    /\ utils_CURRENT_THEME = CURRENT_THEME
    /\ sys_stdout = <<>>
    /\ sys_stderr = <<>>
    /\ lpc = "idle"
    /\ prompts = 0
    /\ last_call = NoCall
    /\ styles = {}

\* no test class is being run
FixtureIdle ==
    /\ fixture = "none"
    /\ n_tests = 0
    /\ test_no = 0
    /\ fpc = "finished"
    /\ events = <<>>
    /\ received = <<>>
    /\ cached = "none"
    /\ browser = "none"
    /\ context = "none"

Init ==
    /\ os_name \in OsNames
    /\ pytest_found \in BOOLEAN
    /\ argv \in SeqUpTo(Tokens, MaxArgs)
    /\ args = <<>>
    /\ headed = FALSE
    /\ debug = FALSE
    /\ commands = EmptyDict
    /\ test_name = ""
    /\ command = ""
    /\ run_calls = <<>>
    /\ child = "none"
    /\ child_status = {}
    /\ stdout = <<>>
    /\ exit_code = {}
    /\ pc = "start"
    /\ RegistryIdle
    /\ LearnIdle
    /\ FixtureIdle

\* lines 98-102: no argument or a leading help: usage, then sys.exit()
main_help ==
    /\ pc = "start"
    /\ IsHelp(argv)
    /\ args' = argv
    /\ stdout' = stdout \o print_help
    /\ exit_code' = {0}
    /\ pc' = "done"
    /\ UNCHANGED <<os_name, pytest_found, argv, headed, debug, commands,
                   test_name, command, run_calls, child, child_status>>
    /\ UNCHANGED notRunnerVars

\* lines 98-108: the options are read and the flags removed from args
main_parse_options ==
    /\ pc = "start"
    /\ ~IsHelp(argv)
    /\ headed' = HasFlag(argv, "--headed")
    /\ debug' = HasFlag(argv, "--debug")
    /\ args' = StripFlags(argv)
    /\ pc' = "dispatch"
    /\ UNCHANGED <<os_name, pytest_found, argv, commands, test_name, command,
                   run_calls, child, child_status, stdout, exit_code>>
    /\ UNCHANGED notRunnerVars

\* lines 110-115: run <test_name> with a registered name enters
\* run_with_options with the list stored in commands
main_run ==
    /\ pc = "dispatch"
    /\ IsRun(args)
    /\ LET cmds == get_test_commands(os_name)
       IN  /\ InDict(cmds, args[2])
           /\ commands' = cmds
           /\ test_name' = args[2]
           /\ command' = args[2]
    /\ pc' = "run_with_options"
    /\ UNCHANGED <<os_name, pytest_found, argv, args, headed, debug,
                   run_calls, child, child_status, stdout, exit_code>>
    /\ UNCHANGED notRunnerVars

\* lines 110-118: run <test_name> with an unknown name prints the two
\* lines and the script ends by reaching its last line
main_not_found ==
    /\ pc = "dispatch"
    /\ IsRun(args)
    /\ LET cmds == get_test_commands(os_name)
       IN  /\ ~InDict(cmds, args[2])
           /\ commands' = cmds
           /\ test_name' = args[2]
           /\ stdout' = stdout \o not_found_message(args[2], cmds)
    /\ exit_code' = {0}
    /\ pc' = "done"
    /\ UNCHANGED <<os_name, pytest_found, argv, args, headed, debug, command,
                   run_calls, child, child_status>>
    /\ UNCHANGED notRunnerVars

\* lines 119-121: anything else prints "Invalid command." and the usage and
\* the script ends by reaching its last line
main_invalid ==
    /\ pc = "dispatch"
    /\ ~IsRun(args)
    /\ stdout' = stdout \o << <<"Invalid command.">> >> \o print_help
    /\ exit_code' = {0}
    /\ pc' = "done"
    /\ UNCHANGED <<os_name, pytest_found, argv, args, headed, debug, commands,
                   test_name, command, run_calls, child, child_status>>
    /\ UNCHANGED notRunnerVars

\* lines 64-67: the flags are appended in place to the list it was given,
\* which is the list stored in commands
run_with_options ==
    /\ pc = "run_with_options"
    /\ commands' = [commands EXCEPT !.map[command] =
                       command_with_options(@, headed, debug)]
    /\ pc' = "subprocess_run"
    /\ UNCHANGED <<os_name, pytest_found, argv, args, headed, debug,
                   test_name, command, run_calls, child, child_status,
                   stdout, exit_code>>
    /\ UNCHANGED notRunnerVars

\* the handler without its sys.exit(1): the script reaches its last line
subprocess_run_FileNotFoundError_NoExit ==
    /\ pc = "subprocess_run"
    /\ ~pytest_found
    /\ run_calls' = Append(run_calls, commands.map[command])
    /\ child' = "missing"
    /\ stdout' = stdout \o pytest_not_found_message(os_name)
    /\ exit_code' = {0}
    /\ pc' = "done"
    /\ UNCHANGED <<os_name, pytest_found, argv, args, headed, debug, commands,
                   test_name, command, child_status>>
    /\ UNCHANGED notRunnerVars

\* lines 69-76: subprocess.run cannot locate command[0]: FileNotFoundError,
\* the remediation message and sys.exit(1)
subprocess_run_FileNotFoundError ==
    /\ pc = "subprocess_run"
    /\ ~pytest_found
    /\ run_calls' = Append(run_calls, commands.map[command])
    /\ child' = "missing"
    /\ stdout' = stdout \o pytest_not_found_message(os_name)
    /\ exit_code' = {1}
    /\ pc' = "done"
    /\ UNCHANGED <<os_name, pytest_found, argv, args, headed, debug, commands,
                   test_name, command, child_status>>
    /\ UNCHANGED notRunnerVars

\* line 69: subprocess.run starts the child and blocks until it is over
subprocess_run_start ==
    /\ pc = "subprocess_run"
    /\ pytest_found
    /\ run_calls' = Append(run_calls, commands.map[command])
    /\ child' = "running"
    /\ pc' = "wait"
    /\ UNCHANGED <<os_name, pytest_found, argv, args, headed, debug, commands,
                   test_name, command, child_status, stdout, exit_code>>
    /\ UNCHANGED notRunnerVars

\* line 69: the child exits with status 0, subprocess.run returns,
\* run_with_options returns and the script reaches its last line
subprocess_run_returns ==
    /\ pc = "wait"
    /\ child = "running"
    /\ child' = "exited"
    /\ child_status' = {0}
    /\ command' = ""
    /\ exit_code' = {0}
    /\ pc' = "done"
    /\ UNCHANGED <<os_name, pytest_found, argv, args, headed, debug, commands,
                   test_name, run_calls, stdout>>
    /\ UNCHANGED notRunnerVars

\* the handler starts the command again instead of giving up
subprocess_run_CalledProcessError_Retry ==
    /\ pc = "wait"
    /\ child = "running"
    /\ \E status \in 1..MaxStatus :
          /\ child_status' = {status}
          /\ stdout' = stdout \o
                 called_process_error_message(commands.map[command], status)
    /\ child' = "exited"
    /\ pc' = "subprocess_run"
    /\ UNCHANGED <<os_name, pytest_found, argv, args, headed, debug, commands,
                   test_name, command, run_calls, exit_code>>
    /\ UNCHANGED notRunnerVars

\* lines 69, 77-79: the child exits with a non-zero status, check=True
\* raises CalledProcessError, the handler prints it and calls sys.exit(1)
subprocess_run_CalledProcessError ==
    /\ pc = "wait"
    /\ child = "running"
    /\ \E status \in 1..MaxStatus :
          /\ child_status' = {status}
          /\ stdout' = stdout \o
                 called_process_error_message(commands.map[command], status)
    /\ child' = "exited"
    /\ exit_code' = {1}
    /\ pc' = "done"
    /\ UNCHANGED <<os_name, pytest_found, argv, args, headed, debug, commands,
                   test_name, command, run_calls>>
    /\ UNCHANGED notRunnerVars

Next ==
    \/ main_help
    \/ main_parse_options
    \/ main_run
    \/ main_not_found
    \/ main_invalid
    \/ run_with_options
    \/ subprocess_run_FileNotFoundError
    \/ subprocess_run_start
    \/ subprocess_run_returns
    \/ subprocess_run_CalledProcessError

Spec == Init /\ [][Next]_vars

\* ==== get_test_commands and run_with_options called from another module ======
\* names such a caller passes on to run_with_options
CallerNames == {"all", "basics"}

\* the script is not run: scripts.py is imported and its functions are called
RunnerImported ==
    /\ os_name \in OsNames
    /\ pytest_found \in BOOLEAN
    /\ argv = <<>>
    /\ args = <<>>
    /\ headed = FALSE
    /\ debug = FALSE
    /\ commands = EmptyDict
    /\ test_name = ""
    /\ command = ""
    /\ run_calls = <<>>
    /\ child = "none"
    /\ child_status = {}
    /\ stdout = <<>>
    /\ exit_code = {}
    /\ pc = "imported"

\* the values a table refers to
Deref(h, table) ==
    [keys |-> table.keys,
     map  |-> [name \in DOMAIN table.map |-> h[table.map[name]]]]

\* one table kept at module level and handed out by every call
new_commands_Cached(h, os) ==
    LET n == Len(CommandPairs(os))
        fresh == Len(h) = 0
        first == IF fresh THEN Len(h) + 1 ELSE 1
    IN  [heap  |-> IF fresh
                   THEN h \o <<base_cmd(os)>> \o
                        [i \in 1..n |-> CommandPairs(os)[i][2]]
                   ELSE h,
         table |-> OrderedDict([i \in 1..n |->
                                  <<CommandPairs(os)[i][1], first + i>>])]

\* lines 17-60: base_cmd is a new list, every base_cmd + [...] is another
\* new list, and the OrderedDict refers to these
new_commands(h, os) ==
    LET n == Len(CommandPairs(os))
        first == Len(h) + 1
    IN  [heap  |-> h \o <<base_cmd(os)>> \o
                   [i \in 1..n |-> CommandPairs(os)[i][2]],
         table |-> OrderedDict([i \in 1..n |->
                                  <<CommandPairs(os)[i][1], first + i>>])]

InitRegistry ==
    /\ RunnerImported
    /\ RegistryIdle
    /\ LearnIdle
    /\ FixtureIdle

\* lines 8-60: a call of get_test_commands
call_get_test_commands ==
    /\ pc = "imported"
    /\ Len(tables) < MaxCalls
    /\ LET r == new_commands(heap, os_name)
       IN  /\ heap' = r.heap
           /\ tables' = Append(tables, r.table)
           /\ returned' = Append(returned, Deref(r.heap, r.table))
    /\ UNCHANGED <<runnerVars, appended, testVars>>

\* lines 62-69: run_with_options on an entry of a table: the flags are
\* appended to that list, the child runs and exits with status 0
call_run_with_options ==
    /\ pc = "imported"
    /\ appended < MaxAppends
    /\ pytest_found
    /\ \E t \in 1..Len(tables), name \in CallerNames, h, d \in BOOLEAN :
          LET id == tables[t].map[name]
          IN  /\ heap' = [heap EXCEPT ![id] = command_with_options(@, h, d)]
              /\ run_calls' = Append(run_calls, heap'[id])
    /\ appended' = appended + 1
    /\ UNCHANGED <<os_name, pytest_found, argv, args, headed, debug, commands,
                   test_name, command, child, child_status, stdout,
                   exit_code, pc, tables, returned>>
    /\ UNCHANGED testVars

\* lines 62-79: the same call when the executable is missing or the child
\* exits with a non-zero status: the message and sys.exit(1)
call_run_with_options_exit ==
    /\ pc = "imported"
    /\ appended < MaxAppends
    /\ \E t \in 1..Len(tables), name \in CallerNames, h, d \in BOOLEAN :
          LET id == tables[t].map[name]
          IN  /\ heap' = [heap EXCEPT ![id] = command_with_options(@, h, d)]
              /\ run_calls' = Append(run_calls, heap'[id])
              /\ IF pytest_found
                 THEN \E status \in 1..MaxStatus :
                         stdout' = stdout \o
                             called_process_error_message(heap'[id], status)
                 ELSE stdout' = stdout \o pytest_not_found_message(os_name)
    /\ appended' = appended + 1
    /\ exit_code' = {1}
    /\ pc' = "done"
    /\ UNCHANGED <<os_name, pytest_found, argv, args, headed, debug, commands,
                   test_name, command, child, child_status, tables, returned>>
    /\ UNCHANGED testVars

NextRegistry ==
    \/ call_get_test_commands
    \/ call_run_with_options
    \/ call_run_with_options_exit

SpecRegistry == InitRegistry /\ [][NextRegistry]_vars

\* ---- the source tree ----------------------------------------------------------
\* the directories and files under tests/, as paths from the directory of
\* scripts.py
SourceTree ==
    {
      "tests",
      "tests/conftest.py",
      "tests/interactive_examples",
      "tests/interactive_examples/01_basics.py",
      "tests/interactive_examples/02_data_types.py",
      "tests/interactive_examples/03_data_structures.py",
      "tests/interactive_examples/04_control_flow.py",
      "tests/interactive_examples/05_functions.py",
      "tests/interactive_examples/06_oop_basics.py",
      "tests/interactive_examples/07_advanced_oop.py",
      "tests/interactive_examples/08_modules_and_packages.py",
      "tests/interactive_examples/09_file_io.py",
      "tests/interactive_examples/10_exceptions_handling.py",
      "tests/interactive_examples/11_iterators_and_generators.py",
      "tests/interactive_examples/12_decorators_and_context_managers.py",
      "tests/interactive_examples/13_advanced_concepts.py",
      "tests/interactive_examples/14_standard_library_and_third_party.py",
      "tests/interactive_examples/15_pytest_basics.py",
      "tests/interactive_examples/16_playwright_integration.py",
      "tests/learn_examples",
      "tests/learn_examples/test_02_data_types.py",
      "tests/learn_examples/test_04_control_flow.py",
      "tests/learn_examples/test_11_iterators_and_generators.py",
      "tests/learn_examples/test_13_advanced_concepts.py",
      "tests/learn_examples/test_15_pytest_basics.py",
      "tests/learn_examples/test_advanced_oop.py",
      "tests/learn_examples/test_basics.py",
      "tests/learn_examples/test_data_structures.py",
      "tests/learn_examples/test_functions.py",
      "tests/learn_examples/test_playwright_integration.py",
      "tests/learn_examples/utils.py",
      "tests/test_examples",
      "tests/test_examples/test_01_basics.py",
      "tests/test_examples/test_06_oop_basics.py",
      "tests/test_examples/test_10_exceptions_handling.py",
      "tests/test_examples/test_12_decorators_and_context_managers.py",
      "tests/test_examples/test_login_scope.py",
      "tests/test_examples/test_unit_only.py",
      "tests/utils",
      "tests/utils/__init__.py",
      "tests/utils/interactive.py"
    }

\* ==== the lesson utilities ======================================================
\* ---- texts --------------------------------------------------------------------
\* sep.join(texts)
RECURSIVE JoinText(_, _)
JoinText(texts, sep) ==
    IF Len(texts) = 0 THEN <<>>
    ELSE IF Len(texts) = 1 THEN texts[1]
    ELSE texts[1] \o sep \o JoinText(Tail(texts), sep)

\* words and separators given to learn_print
PrintWords == {<<"Hello">>, <<"Python">>, <<"World">>}
PrintSeps == {<<" ">>, <<",", " ">>, <<>>}

\* ---- learn_print (conftest.py and utils/interactive.py, the same code) ---------
\* the print of the arguments without file=sys.stderr
learn_print_ToStdout(texts, sep, end) ==
    [out |-> JoinText(texts, sep) \o end,
     err |-> <<"\n">> \o <<"\n">>]

\* a blank line, the arguments joined by sep and followed by end, a blank
\* line, all three on sys.stderr
learn_print(texts, sep, end) ==
    [out |-> <<>>,
     err |-> <<"\n">> \o JoinText(texts, sep) \o end \o <<"\n">>]

\* lprint(text, ...) with the defaults sep=' ' and end=' '
lprint(texts) == learn_print(texts, <<" ">>, <<" ">>).err

\* ---- strings --------------------------------------------------------------------
Whitespace == {" ", "\n", "\t"}

\* text.lstrip(), text.rstrip(), text.strip()
RECURSIVE LStrip(_)
LStrip(text) ==
    IF Len(text) = 0 THEN text
    ELSE IF Head(text) \in Whitespace THEN LStrip(Tail(text)) ELSE text

RECURSIVE RStrip(_)
RStrip(text) ==
    IF Len(text) = 0 THEN text
    ELSE IF text[Len(text)] \in Whitespace
         THEN RStrip(SubSeq(text, 1, Len(text) - 1)) ELSE text

Strip(text) == RStrip(LStrip(text))

UpperCase == <<"A", "B", "C", "D", "E", "F", "G", "H", "I", "J", "K", "L", "M", "N", "O", "P", "Q", "R", "S", "T", "U", "V", "W", "X", "Y", "Z">>
LowerCase == <<"a", "b", "c", "d", "e", "f", "g", "h", "i", "j", "k", "l", "m", "n", "o", "p", "q", "r", "s", "t", "u", "v", "w", "x", "y", "z">>

\* text.lower()
LowerSymbol(c) ==
    IF \E i \in 1..Len(UpperCase) : UpperCase[i] = c
    THEN LowerCase[CHOOSE i \in 1..Len(UpperCase) : UpperCase[i] = c]
    ELSE c

Lower(text) == [i \in 1..Len(text) |-> LowerSymbol(text[i])]

\* the letters of a typed line as one word, to compare it with a name
RECURSIVE Str(_)
Str(text) == IF Len(text) = 0 THEN "" ELSE text[1] \o Str(Tail(text))

\* text.startswith(c)
StartsWith(text, c) == IF Len(text) = 0 THEN FALSE ELSE text[1] = c

\* text.split('\n')
RECURSIVE Split(_)
Split(text) ==
    IF \E i \in 1..Len(text) : text[i] = "\n"
    THEN LET i == CHOOSE i \in 1..Len(text) :
                     text[i] = "\n" /\ \A j \in 1..(i - 1) : text[j] # "\n"
         IN  <<SubSeq(text, 1, i - 1)>> \o Split(SubSeq(text, i + 1, Len(text)))
    ELSE <<text>>

\* " " * n
Spaces(n) == [i \in 1..n |-> " "]

\* ---- colours and themes (utils/interactive.py) ------------------------------------
\* the ANSI escape sequences, ESC standing for the character \033
BLUE == "ESC[94m"
GREEN == "ESC[92m"
RED == "ESC[91m"
YELLOW == "ESC[33m"
BOLD == "ESC[1m"
RESET == "ESC[0m"

\* the dict THEMES, in insertion order
THEMES ==
    <<
      <<"monokai", "Dark theme with vibrant colors (like Sublime Text)">>,
      <<"one-dark", "Atom-inspired dark theme with subtle colors">>,
      <<"solarized-dark", "Popular dark theme with carefully chosen colors">>,
      <<"solarized-light", "Light version of the Solarized theme">>,
      <<"dracula", "Dark theme with modern colors">>,
      <<"gruvbox-dark", "Retro groove dark theme">>,
      <<"gruvbox-light", "Retro groove light theme">>,
      <<"nord", "Arctic-inspired dark theme">>,
      <<"vs", "Light theme inspired by Visual Studio">>,
      <<"zenburn", "Low contrast dark theme easy on the eyes">>
    >>

ThemeNames == {THEMES[i][1] : i \in 1..Len(THEMES)}

\* the styles the installed Pygments knows: all ten, or those of a release
\* older than the newer themes
StyleSets == {ThemeNames,
              {"monokai", "solarized-dark", "solarized-light", "vs"}}

\* set_theme without the test of line 66
set_theme_Unchecked(current, theme_name) ==
    [theme |-> theme_name, result |-> TRUE]

\* set_theme: the new value of CURRENT_THEME and the value returned
set_theme(current, theme_name) ==
    IF theme_name \in ThemeNames
    THEN [theme |-> theme_name, result |-> TRUE]
    ELSE [theme |-> current, result |-> FALSE]

\* color_print(text, color): what it writes to stderr
color_print(text, color) == lprint(<< <<color>> \o text \o <<RESET>> >>)

\* list_themes(): what it writes to stderr
RECURSIVE theme_rows(_, _)
theme_rows(rows, current) ==
    IF Len(rows) = 0 THEN <<>>
    ELSE color_print((IF rows[1][1] = current THEN <<"->", " ">> ELSE <<" ", " ">>)
                     \o <<rows[1][1], ":", " ", rows[1][2]>>, BLUE)
         \o theme_rows(Tail(rows), current)

list_themes(current) ==
    color_print(<<"\n", BOLD, "Available Themes:", RESET>>, BLUE)
    \o theme_rows(THEMES, current)

\* get_user_input(prompt): what it writes to stderr, and what it returns for
\* the line typed
input_prompt(prompt) == color_print(<<"\n", YELLOW>> \o prompt \o <<RESET>>, BLUE)

get_user_input(line) == Lower(Strip(line))

\* ---- print_code_block ---------------------------------------------------------------
\* len(line) - len(line.lstrip())
Indentation(line) == Len(line) - Len(LStrip(line))

Min(S) == CHOOSE x \in S : \A y \in S : x <= y

\* highlight(code, PythonLexer(), Terminal256Formatter(style)): the code with
\* the colours of the style, ending in a newline
highlight(code, style) == <<"ESC[" \o style \o "]">> \o code \o <<RESET, "\n">>

\* what print_code_block writes to stderr and the exception it lets escape;
\* lines is its local list after line 119 (line 113 when min raises), printed
\* the code lines as they stand in what was written, colours left out
print_code_block(code, indent, theme, known_styles) ==
    LET lines0 == Split(Strip(code))
        nonblank == {i \in 1..Len(lines0) : Strip(lines0[i]) # <<>>}
    IN  IF nonblank = {}
        THEN [err |-> lprint(<< <<>> >>), raised |-> "ValueError",
              lines |-> lines0, printed |-> <<>>]
        ELSE
        LET min_indent == Min({Indentation(lines0[i]) : i \in nonblank})
            lines == [i \in 1..Len(lines0) |->
                        IF i \in nonblank
                        THEN SubSeq(lines0[i], min_indent + 1, Len(lines0[i]))
                        ELSE <<>>]
            indent_str == Spaces(indent)
            code2 == JoinText([i \in 1..Len(lines) |-> indent_str \o lines[i]],
                              <<"\n">>)
            fallback == Split(code2)
            body == IF theme \in known_styles
                    THEN lprint(<<highlight(code2, theme)>>)
                    ELSE color_print(<<"Theme error: ", "Could not find style module ",
                                       theme, ". Falling back to basic formatting.">>, RED)
                         \o JoinText([i \in 1..Len(fallback) |->
                                        lprint(<<indent_str \o fallback[i]>>)], <<>>)
        IN  [err |-> lprint(<< <<>> >>) \o body \o lprint(<< <<>> >>),
             raised |-> "",
             lines |-> lines,
             printed |-> IF theme \in known_styles THEN Split(code2)
                         ELSE [i \in 1..Len(fallback) |-> indent_str \o fallback[i]]]

\* ---- select_theme ---------------------------------------------------------------------
\* the sample shown as a preview (lines 89-95)
SampleCode ==
    <<"\n">> \o Spaces(16) \o <<"def example_function(name: str) -> str:", "\n">>
    \o Spaces(20) \o <<"\"\"\"Example function to showcase theme.\"\"\"", "\n">>
    \o Spaces(20) \o <<"message = f\"Hello, {name}!\"", "\n">>
    \o Spaces(20) \o <<"numbers = [1, 2, 3]  # A simple list", "\n">>
    \o Spaces(20) \o <<"return message  # Return greeting", "\n">>
    \o Spaces(16)

ThemePrompt ==
    input_prompt(<<YELLOW, "Enter theme name (or 'cancel' to keep current theme): ", RESET>>)

KeepPrompt ==
    input_prompt(<<YELLOW, "Keep this theme? (yes/no): ", RESET>>)

\* lines the user types, letter by letter
InputLines ==
    {
      <<"d", "r", "a", "c", "u", "l", "a">>,
      <<" ", "N", "o", "r", "d", " ">>,
      <<"V", "S">>,
      <<"c", "a", "n", "c", "e", "l">>,
      <<"y", "e", "s">>,
      <<"N", "o">>,
      <<>>,
      <<"n", "o", "p", "e">>
    }

\* code blocks given to print_code_block by a lesson: the sample, one line,
\* a block starting at the margin, a block indented by two, a block with an
\* empty line, the empty string, a string of blanks and newlines
CodeBlocks ==
    {
      SampleCode,
      <<"x = 1">>,
      <<"if x:", "\n">> \o Spaces(4) \o <<"y = 2">>,
      Spaces(2) \o <<"a = 1", "\n">> \o Spaces(2) \o <<"b = 2">>,
      <<"a = 1", "\n", "\n", "b = 2">>,
      <<>>,
      <<"\n", " ", "\n">>
    }

\* names given to set_theme by a caller
ThemeArguments == {"monokai", "dracula", "vs", "Monokai", "nope", ""}

\* ---- the questions of the lessons ---------------------------------------------------
\* get_user_input of the lessons 01 to 03, which carry their own copy:
\* lprint("\n" + prompt), and the same input().strip().lower()
lesson_input_prompt(prompt) == lprint(<< <<"\n">> \o prompt >>)

\* check_answer(user_answer, correct_answers, explanation): what it writes
\* to stderr and what it returns (lines 176-183; the copies of the lessons
\* 01 to 03 write and return the same)
check_answer(user_answer, correct_answers, explanation) ==
    IF user_answer \in Range(correct_answers)
    THEN [err |-> color_print(<<"\n", "[ok] ", "Correct! ">> \o explanation, GREEN),
          result |-> TRUE]
    ELSE [err |-> color_print(<<"\n", "[x] ", "Not quite. ">> \o explanation, RED),
          result |-> FALSE]

\* the text of a question and of its explanation, never taken apart
QuestionText == <<"question">>
ExplanationText == <<"explanation">>

\* the accepted answers of the questions of 01_basics.py
Quiz_01_basics ==
    <<
      [at |-> "01_basics.py:84", helpers |-> "lesson",
       accepted |-> <<
            <<"\\", "n">>,
            <<"n">>,
            <<"n", "e", "w", "l", "i", "n", "e">>,
            <<"\\", "n", " ", "c", "h", "a", "r", "a", "c", "t", "e", "r">> >>],
      [at |-> "01_basics.py:124", helpers |-> "lesson",
       accepted |-> <<
            <<"#">>,
            <<"h", "a", "s", "h">>,
            <<"p", "o", "u", "n", "d">>,
            <<"h", "a", "s", "h", "t", "a", "g">> >>],
      [at |-> "01_basics.py:157", helpers |-> "lesson",
       accepted |-> <<
            <<"n", "o">>,
            <<"n", "o", "p", "e">>,
            <<"f", "a", "l", "s", "e">> >>],
      [at |-> "01_basics.py:181", helpers |-> "lesson",
       accepted |-> <<
            <<"i", "n", "d", "e", "n", "t", "a", "t", "i", "o", "n">>,
            <<"i", "n", "d", "e", "n", "t">>,
            <<"s", "p", "a", "c", "e", "s">>,
            <<"s", "p", "a", "c", "e">>,
            <<"w", "h", "i", "t", "e", "s", "p", "a", "c", "e">> >>]
    >>

\* the accepted answers of the questions of 02_data_types.py
Quiz_02_data_types ==
    <<
      [at |-> "02_data_types.py:87", helpers |-> "lesson",
       accepted |-> <<
            <<"/", "/">>,
            <<"d", "o", "u", "b", "l", "e", " ", "s", "l", "a", "s", "h">>,
            <<"f", "l", "o", "o", "r", " ", "d", "i", "v", "i", "s", "i", "o", "n">> >>],
      [at |-> "02_data_types.py:115", helpers |-> "lesson",
       accepted |-> <<
            <<"f", "l", "o", "o", "r">>,
            <<"m", "a", "t", "h", ".", "f", "l", "o", "o", "r">>,
            <<"f", "l", "o", "o", "r", "(", ")">>,
            <<"m", "a", "t", "h", ".", "f", "l", "o", "o", "r", "(", ")">> >>],
      [at |-> "02_data_types.py:141", helpers |-> "lesson",
       accepted |-> <<
            <<"j">>,
            <<"j", " ", "u", "n", "i", "t">> >>],
      [at |-> "02_data_types.py:174", helpers |-> "lesson",
       accepted |-> <<
            <<"r">>,
            <<"r", " ", "p", "r", "e", "f", "i", "x">>,
            <<"r", "a", "w">> >>],
      [at |-> "02_data_types.py:206", helpers |-> "lesson",
       accepted |-> <<
            <<"s", "t", "r", "i", "p">>,
            <<"s", "t", "r", "i", "p", "(", ")">>,
            <<".", "s", "t", "r", "i", "p">>,
            <<".", "s", "t", "r", "i", "p", "(", ")">> >>],
      [at |-> "02_data_types.py:243", helpers |-> "lesson",
       accepted |-> <<
            <<"s", "h", "o", "r", "t", " ", "c", "i", "r", "c", "u", "i", "t">>,
            <<"s", "h", "o", "r", "t", "-", "c", "i", "r", "c", "u", "i", "t">>,
            <<"s", "k", "i", "p", "s", " ", "y">>,
            <<"y", " ", "n", "o", "t", " ", "e", "v", "a", "l", "u", "a", "t", "e", "d">>,
            <<"r", "e", "t", "u", "r", "n", "s", " ", "f", "a", "l", "s", "e">>,
            <<"r", "e", "t", "u", "r", "n", "s", " ", "x">> >>],
      [at |-> "02_data_types.py:277", helpers |-> "lesson",
       accepted |-> <<
            <<"b", "o", "o", "l">>,
            <<"b", "o", "o", "l", "(", ")">>,
            <<"b", "o", "o", "l", " ", "f", "u", "n", "c", "t", "i", "o", "n">> >>]
    >>

\* the accepted answers of the questions of 03_data_structures.py
Quiz_03_data_structures ==
    <<
      [at |-> "03_data_structures.py:108", helpers |-> "lesson",
       accepted |-> <<
            <<"a", "p", "p", "e", "n", "d">>,
            <<"a", "p", "p", "e", "n", "d", "(", ")">>,
            <<".", "a", "p", "p", "e", "n", "d">>,
            <<".", "a", "p", "p", "e", "n", "d", "(", ")">> >>],
      [at |-> "03_data_structures.py:134", helpers |-> "lesson",
       accepted |-> <<
            <<"-", "1">>,
            <<"n", "e", "g", "a", "t", "i", "v", "e", " ", "1">>,
            <<"-", "1", " ", "s", "t", "e", "p">> >>],
      [at |-> "03_data_structures.py:163", helpers |-> "lesson",
       accepted |-> <<
            <<"[", "]">>,
            <<"s", "q", "u", "a", "r", "e", " ", "b", "r", "a", "c", "k", "e", "t", "s">>,
            <<"b", "r", "a", "c", "k", "e", "t", "s">> >>],
      [at |-> "03_data_structures.py:196", helpers |-> "lesson",
       accepted |-> <<
            <<"c", "o", "m", "m", "a">>,
            <<",">>,
            <<"t", "r", "a", "i", "l", "i", "n", "g", " ", "c", "o", "m", "m", "a">> >>],
      [at |-> "03_data_structures.py:226", helpers |-> "lesson",
       accepted |-> <<
            <<"c", "o", "l", "l", "e", "c", "t", "i", "o", "n", "s">>,
            <<"c", "o", "l", "l", "e", "c", "t", "i", "o", "n", "s", " ", "m", "o", "d", "u", "l", "e">> >>],
      [at |-> "03_data_structures.py:252", helpers |-> "lesson",
       accepted |-> <<
            <<"*">>,
            <<"a", "s", "t", "e", "r", "i", "s", "k">> >>],
      [at |-> "03_data_structures.py:284", helpers |-> "lesson",
       accepted |-> <<
            <<"d", "i", "s", "c", "a", "r", "d">>,
            <<"d", "i", "s", "c", "a", "r", "d", "(", ")">>,
            <<".", "d", "i", "s", "c", "a", "r", "d">>,
            <<".", "d", "i", "s", "c", "a", "r", "d", "(", ")">> >>],
      [at |-> "03_data_structures.py:314", helpers |-> "lesson",
       accepted |-> <<
            <<"|">>,
            <<"p", "i", "p", "e">>,
            <<"v", "e", "r", "t", "i", "c", "a", "l", " ", "b", "a", "r">>,
            <<"o", "r">> >>],
      [at |-> "03_data_structures.py:343", helpers |-> "lesson",
       accepted |-> <<
            <<"{", "}">>,
            <<"c", "u", "r", "l", "y", " ", "b", "r", "a", "c", "e", "s">>,
            <<"b", "r", "a", "c", "e", "s">> >>],
      [at |-> "03_data_structures.py:381", helpers |-> "lesson",
       accepted |-> <<
            <<"g", "e", "t">>,
            <<"g", "e", "t", "(", ")">>,
            <<".", "g", "e", "t">>,
            <<".", "g", "e", "t", "(", ")">> >>],
      [at |-> "03_data_structures.py:408", helpers |-> "lesson",
       accepted |-> <<
            <<"i", "t", "e", "m", "s">>,
            <<"i", "t", "e", "m", "s", "(", ")">>,
            <<".", "i", "t", "e", "m", "s">>,
            <<".", "i", "t", "e", "m", "s", "(", ")">> >>],
      [at |-> "03_data_structures.py:441", helpers |-> "lesson",
       accepted |-> <<
            <<":">>,
            <<"c", "o", "l", "o", "n">> >>]
    >>

\* the accepted answers of the questions of 04_control_flow.py
Quiz_04_control_flow ==
    <<
      [at |-> "04_control_flow.py:69", helpers |-> "tests.utils",
       accepted |-> <<
            <<"e", "l", "i", "f">>,
            <<"e", "l", "i", "f", " ", "k", "e", "y", "w", "o", "r", "d">> >>],
      [at |-> "04_control_flow.py:99", helpers |-> "tests.utils",
       accepted |-> <<
            <<"a", "n", "d">>,
            <<"a", "n", "d", " ", "o", "p", "e", "r", "a", "t", "o", "r">> >>],
      [at |-> "04_control_flow.py:139", helpers |-> "tests.utils",
       accepted |-> <<
            <<"0">>,
            <<"z", "e", "r", "o">> >>],
      [at |-> "04_control_flow.py:175", helpers |-> "tests.utils",
       accepted |-> <<
            <<"e", "n", "u", "m", "e", "r", "a", "t", "e">>,
            <<"e", "n", "u", "m", "e", "r", "a", "t", "e", "(", ")">>,
            <<".", "e", "n", "u", "m", "e", "r", "a", "t", "e">>,
            <<".", "e", "n", "u", "m", "e", "r", "a", "t", "e", "(", ")">> >>],
      [at |-> "04_control_flow.py:214", helpers |-> "tests.utils",
       accepted |-> <<
            <<"b", "r", "e", "a", "k">>,
            <<"b", "r", "e", "a", "k", " ", "s", "t", "a", "t", "e", "m", "e", "n", "t">> >>],
      [at |-> "04_control_flow.py:251", helpers |-> "tests.utils",
       accepted |-> <<
            <<"s", "k", "i", "p", "p", "e", "d">>,
            <<"n", "o", "t", " ", "e", "x", "e", "c", "u", "t", "e", "d">>,
            <<"d", "o", "e", "s", "n", "'", "t", " ", "r", "u", "n">>,
            <<"d", "o", "e", "s", "n", "t", " ", "r", "u", "n">>,
            <<"i", "g", "n", "o", "r", "e", "d">> >>]
    >>

\* the accepted answers of the questions of 05_functions.py
Quiz_05_functions ==
    <<
      [at |-> "05_functions.py:72", helpers |-> "tests.utils",
       accepted |-> <<
            <<"d", "e", "f">>,
            <<"d", "e", "f", " ", "k", "e", "y", "w", "o", "r", "d">> >>],
      [at |-> "05_functions.py:99", helpers |-> "tests.utils",
       accepted |-> <<
            <<"*", "*">>,
            <<"d", "o", "u", "b", "l", "e", " ", "a", "s", "t", "e", "r", "i", "s", "k">>,
            <<"d", "o", "u", "b", "l", "e", " ", "s", "t", "a", "r">> >>],
      [at |-> "05_functions.py:130", helpers |-> "tests.utils",
       accepted |-> <<
            <<"N", "o", "n", "e">>,
            <<"n", "o", "n", "e">> >>],
      [at |-> "05_functions.py:162", helpers |-> "tests.utils",
       accepted |-> <<
            <<"l", "a", "m", "b", "d", "a">>,
            <<"l", "a", "m", "b", "d", "a", " ", "k", "e", "y", "w", "o", "r", "d">> >>],
      [at |-> "05_functions.py:191", helpers |-> "tests.utils",
       accepted |-> <<
            <<"-", ">">>,
            <<"a", "r", "r", "o", "w">> >>],
      [at |-> "05_functions.py:229", helpers |-> "tests.utils",
       accepted |-> <<
            <<"@">>,
            <<"a", "t", " ", "s", "i", "g", "n">>,
            <<"a", "t", " ", "s", "y", "m", "b", "o", "l">> >>]
    >>

\* the accepted answers of the questions of 06_oop_basics.py
Quiz_06_oop_basics ==
    <<
      [at |-> "06_oop_basics.py:72", helpers |-> "tests.utils",
       accepted |-> <<
            <<"_", "_", "i", "n", "i", "t", "_", "_">>,
            <<"_", "_", "i", "n", "i", "t", "_", "_", "(", ")">> >>],
      [at |-> "06_oop_basics.py:109", helpers |-> "tests.utils",
       accepted |-> <<
            <<"@", "c", "l", "a", "s", "s", "m", "e", "t", "h", "o", "d">>,
            <<"c", "l", "a", "s", "s", "m", "e", "t", "h", "o", "d">> >>],
      [at |-> "06_oop_basics.py:147", helpers |-> "tests.utils",
       accepted |-> <<
            <<"_", "_", "s", "t", "r", "_", "_">>,
            <<"_", "_", "s", "t", "r", "_", "_", "(", ")">> >>],
      [at |-> "06_oop_basics.py:195", helpers |-> "tests.utils",
       accepted |-> <<
            <<"s", "u", "p", "e", "r">>,
            <<"s", "u", "p", "e", "r", "(", ")">>,
            <<".", "s", "u", "p", "e", "r">>,
            <<".", "s", "u", "p", "e", "r", "(", ")">> >>],
      [at |-> "06_oop_basics.py:235", helpers |-> "tests.utils",
       accepted |-> <<
            <<"_", "_">>,
            <<"d", "o", "u", "b", "l", "e", " ", "u", "n", "d", "e", "r", "s", "c", "o", "r", "e">> >>],
      [at |-> "06_oop_basics.py:274", helpers |-> "tests.utils",
       accepted |-> <<
            <<"@", "p", "r", "o", "p", "e", "r", "t", "y">>,
            <<"p", "r", "o", "p", "e", "r", "t", "y">> >>]
    >>

\* the accepted answers of the questions of 07_advanced_oop.py
Quiz_07_advanced_oop ==
    <<
      [at |-> "07_advanced_oop.py:223", helpers |-> "tests.utils",
       accepted |-> <<
            <<"_", "_", "m", "r", "o", "_", "_">>,
            <<"m", "r", "o">>,
            <<"_", "_", "m", "r", "o">> >>],
      [at |-> "07_advanced_oop.py:234", helpers |-> "tests.utils",
       accepted |-> <<
            <<"M", "i", "x", "i", "n">>,
            <<"m", "i", "x", "i", "n", " ", "s", "u", "f", "f", "i", "x">>,
            <<"s", "u", "f", "f", "i", "x", " ", "m", "i", "x", "i", "n">>,
            <<"e", "n", "d", "s", " ", "w", "i", "t", "h", " ", "m", "i", "x", "i", "n">> >>],
      [at |-> "07_advanced_oop.py:251", helpers |-> "tests.utils",
       accepted |-> <<
            <<"@", "a", "b", "s", "t", "r", "a", "c", "t", "m", "e", "t", "h", "o", "d">>,
            <<"a", "b", "s", "t", "r", "a", "c", "t", "m", "e", "t", "h", "o", "d">> >>],
      [at |-> "07_advanced_oop.py:268", helpers |-> "tests.utils",
       accepted |-> <<
            <<"m", "e", "t", "a", "c", "l", "a", "s", "s">>,
            <<"m", "e", "t", "a", "c", "l", "a", "s", "s", "=">> >>],
      [at |-> "07_advanced_oop.py:279", helpers |-> "tests.utils",
       accepted |-> <<
            <<"_", "_", "e", "n", "t", "e", "r", "_", "_", " ", "a", "n", "d", " ", "_", "_", "e", "x", "i", "t", "_", "_">>,
            <<"_", "_", "e", "n", "t", "e", "r", "_", "_", ",", " ", "_", "_", "e", "x", "i", "t", "_", "_">>,
            <<"_", "_", "e", "n", "t", "e", "r", "_", "_", " ", "_", "_", "e", "x", "i", "t", "_", "_">> >>]
    >>

\* the accepted answers of the questions of 08_modules_and_packages.py
Quiz_08_modules_and_packages ==
    <<
      [at |-> "08_modules_and_packages.py:238", helpers |-> "tests.utils",
       accepted |-> <<
            <<"a", "s">>,
            <<"a", "s", " ", "k", "e", "y", "w", "o", "r", "d">> >>],
      [at |-> "08_modules_and_packages.py:249", helpers |-> "tests.utils",
       accepted |-> <<
            <<"_", "_", "n", "a", "m", "e", "_", "_">>,
            <<"_", "_", "n", "a", "m", "e", "_", "_", " ", "v", "a", "r", "i", "a", "b", "l", "e">> >>],
      [at |-> "08_modules_and_packages.py:266", helpers |-> "tests.utils",
       accepted |-> <<
            <<"_", "_", "i", "n", "i", "t", "_", "_", ".", "p", "y">>,
            <<"i", "n", "i", "t", ".", "p", "y">> >>],
      [at |-> "08_modules_and_packages.py:277", helpers |-> "tests.utils",
       accepted |-> <<
            <<".">>,
            <<"d", "o", "t">>,
            <<"p", "e", "r", "i", "o", "d">> >>],
      [at |-> "08_modules_and_packages.py:294", helpers |-> "tests.utils",
       accepted |-> <<
            <<"f", "i", "n", "d", "_", "p", "a", "c", "k", "a", "g", "e", "s">>,
            <<"f", "i", "n", "d", "_", "p", "a", "c", "k", "a", "g", "e", "s", "(", ")">> >>],
      [at |-> "08_modules_and_packages.py:305", helpers |-> "tests.utils",
       accepted |-> <<
            <<"p", "y", "t", "h", "o", "n", " ", "-", "m", " ", "v", "e", "n", "v">>,
            <<"v", "e", "n", "v">> >>]
    >>

\* the accepted answers of the questions of 09_file_io.py
Quiz_09_file_io ==
    <<
      [at |-> "09_file_io.py:169", helpers |-> "tests.utils",
       accepted |-> <<
            <<"w">>,
            <<"w", "r", "i", "t", "e">>,
            <<"w", " ", "m", "o", "d", "e">> >>],
      [at |-> "09_file_io.py:178", helpers |-> "tests.utils",
       accepted |-> <<
            <<"w", "i", "t", "h">>,
            <<"w", "i", "t", "h", " ", "s", "t", "a", "t", "e", "m", "e", "n", "t">> >>],
      [at |-> "09_file_io.py:195", helpers |-> "tests.utils",
       accepted |-> <<
            <<"b">>,
            <<"b", "i", "n", "a", "r", "y">>,
            <<"b", " ", "m", "o", "d", "e">> >>],
      [at |-> "09_file_io.py:204", helpers |-> "tests.utils",
       accepted |-> <<
            <<"s", "e", "e", "k">>,
            <<"s", "e", "e", "k", "(", ")">>,
            <<"f", "i", "l", "e", ".", "s", "e", "e", "k">> >>],
      [at |-> "09_file_io.py:221", helpers |-> "tests.utils",
       accepted |-> <<
            <<"P", "a", "t", "h">>,
            <<"P", "a", "t", "h", " ", "c", "l", "a", "s", "s">> >>],
      [at |-> "09_file_io.py:232", helpers |-> "tests.utils",
       accepted |-> <<
            <<"n", "e", "w", "l", "i", "n", "e">>,
            <<"n", "e", "w", "l", "i", "n", "e", " ", "p", "a", "r", "a", "m", "e", "t", "e", "r">> >>]
    >>

\* the accepted answers of the questions of 10_exceptions_handling.py
Quiz_10_exceptions_handling ==
    <<
      [at |-> "10_exceptions_handling.py:192", helpers |-> "tests.utils",
       accepted |-> <<
            <<"a", "s">>,
            <<"a", "s", " ", "k", "e", "y", "w", "o", "r", "d">> >>],
      [at |-> "10_exceptions_handling.py:201", helpers |-> "tests.utils",
       accepted |-> <<
            <<"E", "x", "c", "e", "p", "t", "i", "o", "n">>,
            <<"E", "x", "c", "e", "p", "t", "i", "o", "n", " ", "c", "l", "a", "s", "s">> >>],
      [at |-> "10_exceptions_handling.py:218", helpers |-> "tests.utils",
       accepted |-> <<
            <<"e", "l", "s", "e">>,
            <<"e", "l", "s", "e", " ", "b", "l", "o", "c", "k">> >>],
      [at |-> "10_exceptions_handling.py:227", helpers |-> "tests.utils",
       accepted |-> <<
            <<"_", "_", "e", "x", "i", "t", "_", "_">>,
            <<"_", "_", "e", "x", "i", "t", "_", "_", " ", "m", "e", "t", "h", "o", "d">> >>],
      [at |-> "10_exceptions_handling.py:244", helpers |-> "tests.utils",
       accepted |-> <<
            <<"E", "x", "c", "e", "p", "t", "i", "o", "n">>,
            <<"E", "x", "c", "e", "p", "t", "i", "o", "n", " ", "c", "l", "a", "s", "s">> >>],
      [at |-> "10_exceptions_handling.py:255", helpers |-> "tests.utils",
       accepted |-> <<
            <<"f", "r", "o", "m">>,
            <<"f", "r", "o", "m", " ", "k", "e", "y", "w", "o", "r", "d">> >>]
    >>

\* the accepted answers of the questions of 11_iterators_and_generators.py
Quiz_11_iterators_and_generators ==
    <<
      [at |-> "11_iterators_and_generators.py:233", helpers |-> "tests.utils",
       accepted |-> <<
            <<"_", "_", "i", "t", "e", "r", "_", "_", " ", "a", "n", "d", " ", "_", "_", "n", "e", "x", "t", "_", "_">>,
            <<"_", "_", "i", "t", "e", "r", "_", "_", ",", " ", "_", "_", "n", "e", "x", "t", "_", "_">>,
            <<"_", "_", "i", "t", "e", "r", "_", "_", " ", "_", "_", "n", "e", "x", "t", "_", "_">> >>],
      [at |-> "11_iterators_and_generators.py:242", helpers |-> "tests.utils",
       accepted |-> <<
            <<"S", "t", "o", "p", "I", "t", "e", "r", "a", "t", "i", "o", "n">>,
            <<"S", "t", "o", "p", "I", "t", "e", "r", "a", "t", "i", "o", "n", " ", "e", "x", "c", "e", "p", "t", "i", "o", "n">> >>],
      [at |-> "11_iterators_and_generators.py:259", helpers |-> "tests.utils",
       accepted |-> <<
            <<"y", "i", "e", "l", "d">>,
            <<"y", "i", "e", "l", "d", " ", "k", "e", "y", "w", "o", "r", "d">> >>],
      [at |-> "11_iterators_and_generators.py:268", helpers |-> "tests.utils",
       accepted |-> <<
            <<"y", "i", "e", "l", "d", " ", "f", "r", "o", "m">>,
            <<"y", "i", "e", "l", "d", " ", "f", "r", "o", "m", " ", "g", "e", "n", "e", "r", "a", "t", "o", "r">> >>],
      [at |-> "11_iterators_and_generators.py:285", helpers |-> "tests.utils",
       accepted |-> <<
            <<"s", "e", "n", "d">>,
            <<"s", "e", "n", "d", "(", ")">>,
            <<"s", "e", "n", "d", " ", "m", "e", "t", "h", "o", "d">> >>],
      [at |-> "11_iterators_and_generators.py:302", helpers |-> "tests.utils",
       accepted |-> <<
            <<"p", "a", "r", "e", "n", "t", "h", "e", "s", "e", "s">>,
            <<"(", ")">>,
            <<"r", "o", "u", "n", "d", " ", "b", "r", "a", "c", "k", "e", "t", "s">> >>],
      [at |-> "11_iterators_and_generators.py:319", helpers |-> "tests.utils",
       accepted |-> <<
            <<"e", "n", "u", "m", "e", "r", "a", "t", "e">>,
            <<"e", "n", "u", "m", "e", "r", "a", "t", "e", "(", ")">>,
            <<"e", "n", "u", "m", "e", "r", "a", "t", "e", " ", "f", "u", "n", "c", "t", "i", "o", "n">> >>]
    >>

\* the accepted answers of the questions of 12_decorators_and_context_managers.py
Quiz_12_decorators_and_context_managers ==
    <<
      [at |-> "12_decorators_and_context_managers.py:240", helpers |-> "tests.utils",
       accepted |-> <<
            <<"@", "w", "r", "a", "p", "s">>,
            <<"w", "r", "a", "p", "s">>,
            <<"@", "f", "u", "n", "c", "t", "o", "o", "l", "s", ".", "w", "r", "a", "p", "s">>,
            <<"f", "u", "n", "c", "t", "o", "o", "l", "s", ".", "w", "r", "a", "p", "s">> >>],
      [at |-> "12_decorators_and_context_managers.py:251", helpers |-> "tests.utils",
       accepted |-> <<
            <<"3">>,
            <<"t", "h", "r", "e", "e">> >>],
      [at |-> "12_decorators_and_context_managers.py:268", helpers |-> "tests.utils",
       accepted |-> <<
            <<"s", "i", "n", "g", "l", "e", "t", "o", "n">>,
            <<"s", "i", "n", "g", "l", "e", "t", "o", "n", " ", "p", "a", "t", "t", "e", "r", "n">> >>],
      [at |-> "12_decorators_and_context_managers.py:285", helpers |-> "tests.utils",
       accepted |-> <<
            <<"_", "_", "e", "n", "t", "e", "r", "_", "_", " ", "a", "n", "d", " ", "_", "_", "e", "x", "i", "t", "_", "_">>,
            <<"_", "_", "e", "n", "t", "e", "r", "_", "_", ",", " ", "_", "_", "e", "x", "i", "t", "_", "_">>,
            <<"_", "_", "e", "n", "t", "e", "r", "_", "_", " ", "_", "_", "e", "x", "i", "t", "_", "_">> >>],
      [at |-> "12_decorators_and_context_managers.py:294", helpers |-> "tests.utils",
       accepted |-> <<
            <<"@", "c", "o", "n", "t", "e", "x", "t", "m", "a", "n", "a", "g", "e", "r">>,
            <<"c", "o", "n", "t", "e", "x", "t", "m", "a", "n", "a", "g", "e", "r">> >>],
      [at |-> "12_decorators_and_context_managers.py:311", helpers |-> "tests.utils",
       accepted |-> <<
            <<"w", "i", "t", "h">>,
            <<"w", "i", "t", "h", " ", "s", "t", "a", "t", "e", "m", "e", "n", "t">> >>]
    >>

\* the accepted answers of the questions of 13_advanced_concepts.py
Quiz_13_advanced_concepts ==
    <<
      [at |-> "13_advanced_concepts.py:304", helpers |-> "tests.utils",
       accepted |-> <<
            <<"t", "h", "r", "e", "a", "d", "i", "n", "g">>,
            <<"t", "h", "r", "e", "a", "d", "s">>,
            <<"t", "h", "r", "e", "a", "d", "i", "n", "g", " ", "m", "o", "d", "u", "l", "e">> >>],
      [at |-> "13_advanced_concepts.py:321", helpers |-> "tests.utils",
       accepted |-> <<
            <<"c", "u", "r", "l", "y">>,
            <<"c", "u", "r", "l", "y", " ", "b", "r", "a", "c", "k", "e", "t", "s">>,
            <<"{", "}">>,
            <<"b", "r", "a", "c", "e", "s">> >>],
      [at |-> "13_advanced_concepts.py:338", helpers |-> "tests.utils",
       accepted |-> <<
            <<"O", "p", "t", "i", "o", "n", "a", "l">>,
            <<"O", "p", "t", "i", "o", "n", "a", "l", "[", "]">>,
            <<"t", "y", "p", "i", "n", "g", ".", "O", "p", "t", "i", "o", "n", "a", "l">> >>],
      [at |-> "13_advanced_concepts.py:355", helpers |-> "tests.utils",
       accepted |-> <<
            <<"p", "a", "r", "t", "i", "a", "l">>,
            <<"p", "a", "r", "t", "i", "a", "l", "(", ")">>,
            <<"f", "u", "n", "c", "t", "o", "o", "l", "s", ".", "p", "a", "r", "t", "i", "a", "l">> >>],
      [at |-> "13_advanced_concepts.py:372", helpers |-> "tests.utils",
       accepted |-> <<
            <<"w", "e", "a", "k">>,
            <<"w", "e", "a", "k", " ", "r", "e", "f", "e", "r", "e", "n", "c", "e">>,
            <<"w", "e", "a", "k", "r", "e", "f">> >>],
      [at |-> "13_advanced_concepts.py:389", helpers |-> "tests.utils",
       accepted |-> <<
            <<"@", "l", "r", "u", "_", "c", "a", "c", "h", "e">>,
            <<"l", "r", "u", "_", "c", "a", "c", "h", "e">>,
            <<"@", "f", "u", "n", "c", "t", "o", "o", "l", "s", ".", "l", "r", "u", "_", "c", "a", "c", "h", "e">> >>]
    >>

\* the accepted answers of the questions of 14_standard_library_and_third_party.py
Quiz_14_standard_library_and_third_party ==
    <<
      [at |-> "14_standard_library_and_third_party.py:330", helpers |-> "tests.utils",
       accepted |-> <<
            <<"d", "e", "f", "a", "u", "l", "t", "d", "i", "c", "t">>,
            <<"c", "o", "l", "l", "e", "c", "t", "i", "o", "n", "s", ".", "d", "e", "f", "a", "u", "l", "t", "d", "i", "c", "t">> >>],
      [at |-> "14_standard_library_and_third_party.py:347", helpers |-> "tests.utils",
       accepted |-> <<
            <<"t", "i", "m", "e", "d", "e", "l", "t", "a">>,
            <<"d", "a", "t", "e", "t", "i", "m", "e", ".", "t", "i", "m", "e", "d", "e", "l", "t", "a">> >>],
      [at |-> "14_standard_library_and_third_party.py:364", helpers |-> "tests.utils",
       accepted |-> <<
            <<"c", "h", "a", "i", "n">>,
            <<"i", "t", "e", "r", "t", "o", "o", "l", "s", ".", "c", "h", "a", "i", "n">> >>],
      [at |-> "14_standard_library_and_third_party.py:381", helpers |-> "tests.utils",
       accepted |-> <<
            <<"f", "i", "n", "d", "a", "l", "l">>,
            <<"r", "e", ".", "f", "i", "n", "d", "a", "l", "l">> >>],
      [at |-> "14_standard_library_and_third_party.py:398", helpers |-> "tests.utils",
       accepted |-> <<
            <<"d", "u", "m", "p", "s">>,
            <<"j", "s", "o", "n", ".", "d", "u", "m", "p", "s">> >>],
      [at |-> "14_standard_library_and_third_party.py:415", helpers |-> "tests.utils",
       accepted |-> <<
            <<"p", "y", "t", "h", "o", "n", " ", "-", "m", " ", "v", "e", "n", "v">>,
            <<"p", "y", "t", "h", "o", "n", " ", "-", "m", " ", "v", "e", "n", "v", " ", ".">>,
            <<"p", "y", "t", "h", "o", "n", " ", "-", "m", " ", "v", "e", "n", "v", " ", "m", "y", "e", "n", "v">> >>]
    >>

\* the accepted answers of the questions of 15_pytest_basics.py
Quiz_15_pytest_basics ==
    <<
      [at |-> "15_pytest_basics.py:324", helpers |-> "tests.utils",
       accepted |-> <<
            <<"p", "y", "t", "e", "s", "t", ".", "r", "a", "i", "s", "e", "s">>,
            <<"r", "a", "i", "s", "e", "s">>,
            <<"w", "i", "t", "h", " ", "p", "y", "t", "e", "s", "t", ".", "r", "a", "i", "s", "e", "s">> >>],
      [at |-> "15_pytest_basics.py:341", helpers |-> "tests.utils",
       accepted |-> <<
            <<"m", "o", "d", "u", "l", "e">>,
            <<"m", "o", "d", "u", "l", "e", " ", "s", "c", "o", "p", "e">> >>],
      [at |-> "15_pytest_basics.py:358", helpers |-> "tests.utils",
       accepted |-> <<
            <<"x", "f", "a", "i", "l">>,
            <<"@", "p", "y", "t", "e", "s", "t", ".", "m", "a", "r", "k", ".", "x", "f", "a", "i", "l">> >>],
      [at |-> "15_pytest_basics.py:375", helpers |-> "tests.utils",
       accepted |-> <<
            <<"t", "e", "s", "t", "_">>,
            <<"t", "e", "s", "t">> >>],
      [at |-> "15_pytest_basics.py:392", helpers |-> "tests.utils",
       accepted |-> <<
            <<"c", "a", "p", "s", "y", "s">>,
            <<"c", "a", "p", "s", "y", "s", " ", "f", "i", "x", "t", "u", "r", "e">> >>],
      [at |-> "15_pytest_basics.py:409", helpers |-> "tests.utils",
       accepted |-> <<
            <<"-", "-", "c", "o", "v">>,
            <<"-", "-", "c", "o", "v", "=">>,
            <<"p", "y", "t", "e", "s", "t", " ", "-", "-", "c", "o", "v">> >>]
    >>

\* the accepted answers of the questions of 16_playwright_integration.py
Quiz_16_playwright_integration ==
    <<
      [at |-> "16_playwright_integration.py:275", helpers |-> "tests.utils",
       accepted |-> <<
            <<"t", "o", "_", "h", "a", "v", "e", "_", "t", "i", "t", "l", "e">>,
            <<"e", "x", "p", "e", "c", "t", "(", "p", "a", "g", "e", ")", ".", "t", "o", "_", "h", "a", "v", "e", "_", "t", "i", "t", "l", "e">> >>],
      [at |-> "16_playwright_integration.py:285", helpers |-> "tests.utils",
       accepted |-> <<
            <<"g", "e", "t", "_", "b", "y", "_", "l", "a", "b", "e", "l">>,
            <<"p", "a", "g", "e", ".", "g", "e", "t", "_", "b", "y", "_", "l", "a", "b", "e", "l">> >>],
      [at |-> "16_playwright_integration.py:295", helpers |-> "tests.utils",
       accepted |-> <<
            <<"w", "a", "i", "t", "_", "f", "o", "r", "_", "l", "o", "a", "d", "_", "s", "t", "a", "t", "e">>,
            <<"p", "a", "g", "e", ".", "w", "a", "i", "t", "_", "f", "o", "r", "_", "l", "o", "a", "d", "_", "s", "t", "a", "t", "e">> >>],
      [at |-> "16_playwright_integration.py:312", helpers |-> "tests.utils",
       accepted |-> <<
            <<"g", "e", "t", "_", "b", "y", "_", "r", "o", "l", "e">>,
            <<"p", "a", "g", "e", ".", "g", "e", "t", "_", "b", "y", "_", "r", "o", "l", "e">> >>],
      [at |-> "16_playwright_integration.py:329", helpers |-> "tests.utils",
       accepted |-> <<
            <<"f", "i", "l", "l">>,
            <<".", "f", "i", "l", "l">> >>],
      [at |-> "16_playwright_integration.py:346", helpers |-> "tests.utils",
       accepted |-> <<
            <<"e", "x", "p", "e", "c", "t">>,
            <<"e", "x", "p", "e", "c", "t", "(", ")">> >>],
      [at |-> "16_playwright_integration.py:363", helpers |-> "tests.utils",
       accepted |-> <<
            <<"r", "o", "u", "t", "e">>,
            <<"p", "a", "g", "e", ".", "r", "o", "u", "t", "e">> >>],
      [at |-> "16_playwright_integration.py:380", helpers |-> "tests.utils",
       accepted |-> <<
            <<"p", "a", "g", "e", " ", "o", "b", "j", "e", "c", "t", " ", "m", "o", "d", "e", "l">>,
            <<"p", "a", "g", "e", " ", "o", "b", "j", "e", "c", "t", " ", "p", "a", "t", "t", "e", "r", "n">>,
            <<"p", "o", "m">> >>]
    >>

\* every question of the interactive lessons
Questions ==
    Quiz_01_basics
    \o Quiz_02_data_types
    \o Quiz_03_data_structures
    \o Quiz_04_control_flow
    \o Quiz_05_functions
    \o Quiz_06_oop_basics
    \o Quiz_07_advanced_oop
    \o Quiz_08_modules_and_packages
    \o Quiz_09_file_io
    \o Quiz_10_exceptions_handling
    \o Quiz_11_iterators_and_generators
    \o Quiz_12_decorators_and_context_managers
    \o Quiz_13_advanced_concepts
    \o Quiz_14_standard_library_and_third_party
    \o Quiz_15_pytest_basics
    \o Quiz_16_playwright_integration

\* lines a user types at a question: each accepted answer as the lesson
\* spells it, in lower case, and with blanks around it; a wrong answer;
\* nothing
TypedLines(q) ==
    UNION {{q.accepted[i], Lower(q.accepted[i]),
            <<" ">> \o q.accepted[i] \o <<" ">>} : i \in 1..Len(q.accepted)}
    \cup {<<"n", "o", "p", "e">>, <<>>}

\* ---- the calls ------------------------------------------------------------------
\* the script is not run in the test process
RunnerAbsent ==
    /\ os_name = "posix"
    /\ pytest_found = TRUE
    /\ argv = <<>>
    /\ args = <<>>
    /\ headed = FALSE
    /\ debug = FALSE
    /\ commands = EmptyDict
    /\ test_name = ""
    /\ command = ""
    /\ run_calls = <<>>
    /\ child = "none"
    /\ child_status = {}
    /\ stdout = <<>>
    /\ exit_code = {}
    /\ pc = "absent"

InitLearn ==
    /\ RunnerAbsent
    /\ RegistryIdle
    /\ CURRENT_THEME = "monokai"
    /\ utils_CURRENT_THEME = CURRENT_THEME
    /\ sys_stdout = <<>>
    /\ sys_stderr = <<>>
    /\ lpc = "idle"
    /\ prompts = 0
    /\ last_call = NoCall
    /\ styles \in StyleSets
    /\ FixtureIdle

\* a call is made once the output of the one before has been read
OutputRead == sys_stdout = <<>> /\ sys_stderr = <<>>

\* lprint(*args, sep=sep) from a test
call_learn_print ==
    /\ lpc = "idle"
    /\ OutputRead
    /\ \E texts \in SeqUpTo(PrintWords, MaxPrintArgs), sep \in PrintSeps :
          LET r == learn_print(texts, sep, <<" ">>)
          IN  /\ sys_stdout' = sys_stdout \o r.out
              /\ sys_stderr' = sys_stderr \o r.err
              /\ last_call' = [op |-> "learn_print", args |-> texts, sep |-> sep]
    /\ UNCHANGED <<CURRENT_THEME, lpc, prompts, styles,
                   utils_CURRENT_THEME, scriptVars, fixtureVars>>

\* capsys.readouterr() of the tests: what was captured is handed over and
\* the capture starts again
capsys_readouterr ==
    /\ lpc = "idle"
    /\ ~OutputRead
    /\ sys_stdout' = <<>>
    /\ sys_stderr' = <<>>
    /\ last_call' = [op |-> "readouterr"]
    /\ UNCHANGED <<CURRENT_THEME, lpc, prompts, styles,
                   utils_CURRENT_THEME, scriptVars, fixtureVars>>

\* print_code_block(code, indent) from a lesson (lines 107-142); an
\* exception it raises ends the test that called it
call_print_code_block ==
    /\ lpc = "idle"
    /\ OutputRead
    /\ \E code \in CodeBlocks, indent \in 0..MaxIndent :
          LET r == print_code_block(code, indent, CURRENT_THEME, styles)
          IN  /\ sys_stderr' = sys_stderr \o r.err
              /\ last_call' = [op |-> "print_code_block", code |-> code,
                               indent |-> indent, lines |-> r.lines,
                               printed |-> r.printed, raised |-> r.raised]
    /\ UNCHANGED <<CURRENT_THEME, sys_stdout, lpc, prompts, styles, utils_CURRENT_THEME,
                   scriptVars, fixtureVars>>

\* a lesson asks a question: answer = get_user_input(question), then
\* check_answer(answer, [...], explanation)
call_check_answer ==
    /\ lpc = "idle"
    /\ OutputRead
    /\ \E n \in 1..Len(Questions) : \E line \in TypedLines(Questions[n]) :
          LET q == Questions[n]
              answer == get_user_input(line)
              r == check_answer(answer, q.accepted, ExplanationText)
          IN  /\ sys_stderr' = sys_stderr
                    \o (IF q.helpers = "lesson"
                        THEN lesson_input_prompt(QuestionText)
                        ELSE input_prompt(QuestionText))
                    \o r.err
              /\ last_call' = [op |-> "check_answer", at |-> q.at,
                               line |-> line, answer |-> answer,
                               accepted |-> q.accepted, result |-> r.result]
    /\ UNCHANGED <<CURRENT_THEME, sys_stdout, lpc, prompts, styles, utils_CURRENT_THEME,
                   scriptVars, fixtureVars>>

\* set_theme(theme_name) from a caller (lines 63-69)
call_set_theme ==
    /\ lpc = "idle"
    /\ \E theme_name \in ThemeArguments :
          LET r == set_theme(CURRENT_THEME, theme_name)
          IN  /\ CURRENT_THEME' = r.theme
              /\ last_call' = [op |-> "set_theme", theme_name |-> theme_name,
                               result |-> r.result, before |-> CURRENT_THEME]
    /\ UNCHANGED <<sys_stdout, sys_stderr, lpc, prompts, styles, utils_CURRENT_THEME,
                   scriptVars, fixtureVars>>

\* select_theme() is called: lines 81-83, the list of themes and the first
\* prompt, then it waits for a line
call_select_theme ==
    /\ lpc = "idle"
    /\ OutputRead
    /\ sys_stderr' = sys_stderr \o list_themes(CURRENT_THEME) \o ThemePrompt
    /\ lpc' = "theme_input"
    /\ prompts' = 0
    /\ last_call' = [op |-> "select_theme", event |-> "called",
                     before |-> CURRENT_THEME]
    /\ UNCHANGED <<CURRENT_THEME, sys_stdout, styles,
                   utils_CURRENT_THEME, scriptVars, fixtureVars>>

\* lines 83-85: the line typed is cancel: the loop is left
select_theme_cancel ==
    /\ lpc = "theme_input"
    /\ \E line \in InputLines :
          /\ Str(get_user_input(line)) = "cancel"
          /\ last_call' = [op |-> "select_theme", event |-> "cancel",
                           line |-> line, before |-> CURRENT_THEME]
    /\ lpc' = "idle"
    /\ prompts' = prompts + 1
    /\ UNCHANGED <<CURRENT_THEME, sys_stdout, sys_stderr, styles, utils_CURRENT_THEME,
                   scriptVars, fixtureVars>>

\* lines 83-96: the line typed names a theme: set_theme makes it current, the
\* sample is printed in it and the question whether to keep it is asked
select_theme_preview ==
    /\ lpc = "theme_input"
    /\ prompts < MaxPrompts
    /\ \E line \in InputLines :
          LET theme == Str(get_user_input(line))
              r == set_theme(CURRENT_THEME, theme)
              block == print_code_block(SampleCode, 0, r.theme, styles)
          IN  /\ theme # "cancel"
              /\ r.result
              /\ CURRENT_THEME' = r.theme
              /\ sys_stderr' = sys_stderr
                    \o color_print(<<"\n", "[ok] Theme changed to ", theme, "!">>, GREEN)
                    \o block.err \o KeepPrompt
              /\ last_call' = [op |-> "select_theme", event |-> "preview",
                               line |-> line, before |-> CURRENT_THEME]
    /\ lpc' = "keep_input"
    /\ prompts' = prompts + 1
    /\ UNCHANGED <<sys_stdout, styles,
                   utils_CURRENT_THEME, scriptVars, fixtureVars>>

\* the else branch leaving the loop instead of asking again
select_theme_invalid_Break ==
    /\ lpc = "theme_input"
    /\ prompts < MaxPrompts
    /\ \E line \in InputLines :
          LET theme == Str(get_user_input(line))
              r == set_theme(CURRENT_THEME, theme)
          IN  /\ theme # "cancel"
              /\ ~r.result
              /\ CURRENT_THEME' = r.theme
              /\ last_call' = [op |-> "select_theme", event |-> "invalid",
                               line |-> line, before |-> CURRENT_THEME]
    /\ sys_stderr' = sys_stderr
          \o color_print(<<"\n", "[x] Invalid theme name. Please choose from the list.">>, RED)
    /\ lpc' = "idle"
    /\ prompts' = prompts + 1
    /\ UNCHANGED <<sys_stdout, styles, utils_CURRENT_THEME, scriptVars,
                   fixtureVars>>

\* lines 83-86, 100-101: the line typed is no theme: the message, and the
\* prompt again
select_theme_invalid ==
    /\ lpc = "theme_input"
    /\ prompts < MaxPrompts
    /\ \E line \in InputLines :
          LET theme == Str(get_user_input(line))
              r == set_theme(CURRENT_THEME, theme)
          IN  /\ theme # "cancel"
              /\ ~r.result
              /\ CURRENT_THEME' = r.theme
              /\ last_call' = [op |-> "select_theme", event |-> "invalid",
                               line |-> line, before |-> CURRENT_THEME]
    /\ sys_stderr' = sys_stderr
          \o color_print(<<"\n", "[x] Invalid theme name. Please choose from the list.">>, RED)
          \o ThemePrompt
    /\ prompts' = prompts + 1
    /\ UNCHANGED <<sys_stdout, lpc, styles,
                   utils_CURRENT_THEME, scriptVars, fixtureVars>>

\* lines 96-98: the answer does not start with y: set_theme(CURRENT_THEME),
\* continue, and the prompt for a theme again
select_theme_declined ==
    /\ lpc = "keep_input"
    /\ prompts < MaxPrompts
    /\ \E line \in InputLines :
          /\ ~StartsWith(get_user_input(line), "y")
          /\ last_call' = [op |-> "select_theme", event |-> "declined",
                           line |-> line, before |-> last_call.before]
    /\ CURRENT_THEME' = set_theme(CURRENT_THEME, CURRENT_THEME).theme
    /\ sys_stderr' = sys_stderr \o ThemePrompt
    /\ lpc' = "theme_input"
    /\ prompts' = prompts + 1
    /\ UNCHANGED <<sys_stdout, styles,
                   utils_CURRENT_THEME, scriptVars, fixtureVars>>

\* lines 96, 99: the answer starts with y: the loop is left
select_theme_kept ==
    /\ lpc = "keep_input"
    /\ \E line \in InputLines :
          /\ StartsWith(get_user_input(line), "y")
          /\ last_call' = [op |-> "select_theme", event |-> "kept",
                           line |-> line, before |-> last_call.before]
    /\ lpc' = "idle"
    /\ prompts' = prompts + 1
    /\ UNCHANGED <<CURRENT_THEME, sys_stdout, sys_stderr, styles, utils_CURRENT_THEME,
                   scriptVars, fixtureVars>>

NextLearn ==
    \/ call_learn_print
    \/ call_print_code_block
    \/ call_check_answer
    \/ capsys_readouterr
    \/ call_set_theme
    \/ call_select_theme
    \/ select_theme_cancel
    \/ select_theme_preview
    \/ select_theme_invalid
    \/ select_theme_declined
    \/ select_theme_kept

SpecLearn == InitLearn /\ [][NextLearn]_vars

\* input() returns once a line was typed: a user at the prompt for a theme
\* ends up typing cancel, a user asked whether to keep the theme answers
SpecLearnFair ==
    /\ SpecLearn
    /\ SF_vars(select_theme_cancel)
    /\ WF_vars(select_theme_declined \/ select_theme_kept)

\* ==== the fixtures of conftest.py ===============================================
\* an event: the test during which it happened, what was called, on what,
\* and whether the call raised
Event(t, op, target, raised) ==
    [test |-> t, op |-> op, target |-> target, raised |-> raised]

LoginUrl == "https://magento.softwaretestingboard.com/customer/account/login"
LogoutUrl == "https://magento.softwaretestingboard.com/customer/account/logout/"

\* the login with the form filled in before the page is opened
LoginSteps_FillFirst ==
    << [op |-> "fill", target |-> "#email"],
       [op |-> "goto", target |-> LoginUrl],
       [op |-> "fill", target |-> "#pass"],
       [op |-> "click", target |-> "#send2"] >>

\* conftest.py lines 43-46 and 69-72: the four calls that log in
LoginSteps ==
    << [op |-> "goto", target |-> LoginUrl],
       [op |-> "fill", target |-> "#email"],
       [op |-> "fill", target |-> "#pass"],
       [op |-> "click", target |-> "#send2"] >>

\* the calls made by a login during test t: all four when fail = 0, else
\* those up to the one that raises, step number fail
login_events(t, fail) ==
    [i \in 1..(IF fail = 0 THEN Len(LoginSteps) ELSE fail) |->
        Event(t, LoginSteps[i].op, LoginSteps[i].target, i = fail)]

\* test_login_scope.py: what the tests of either class open
TestUrls ==
    << "https://magento.softwaretestingboard.com/what-is-new.html",
       "https://magento.softwaretestingboard.com/gear.html" >>

TestUrl(t) == TestUrls[((t - 1) % Len(TestUrls)) + 1]

FixtureNames == {"luma_test_page", "luma_test_class_page"}

InitFixture ==
    /\ RunnerAbsent
    /\ RegistryIdle
    /\ LearnIdle
    /\ fixture \in FixtureNames
    /\ n_tests \in 1..MaxTests
    /\ test_no = 1
    /\ fpc = "setup"
    /\ events = <<>>
    /\ received = <<>>
    /\ cached = "none"
    /\ browser = "none"
    /\ context = "none"

\* conftest.py lines 37-49: the setup of luma_test_page on the page that
\* pytest-playwright made for this test; a step that raises ends the setup,
\* the test is an error and nothing after the yield will run
luma_test_page_setup ==
    /\ fixture = "luma_test_page"
    /\ fpc = "setup"
    /\ \E fail \in 0..Len(LoginSteps) :
          /\ events' = events \o login_events(test_no, fail)
          /\ IF fail = 0
             THEN /\ received' = Append(received, [test |-> test_no, page |-> test_no,
                                                   context |-> test_no])
                  /\ fpc' = "call"
             ELSE /\ received' = received
                  /\ fpc' = "next"
    /\ UNCHANGED <<fixture, n_tests, test_no, cached, browser, context,
                   scriptVars, learnVars>>

\* test_login_scope.py lines 7-14 and 19-26: the body of the test, which
\* passes or raises; the function fixture is torn down next
run_test ==
    /\ fpc = "call"
    /\ \E raised \in BOOLEAN :
          events' = Append(events, Event(test_no, "test", TestUrl(test_no), raised))
    /\ fpc' = IF fixture = "luma_test_page" THEN "teardown" ELSE "next"
    /\ UNCHANGED <<fixture, n_tests, test_no, received, cached, browser,
                   context, scriptVars, learnVars>>

\* conftest.py lines 51-52: what follows the yield of luma_test_page, run
\* whether the body passed or not
luma_test_page_teardown ==
    /\ fixture = "luma_test_page"
    /\ fpc = "teardown"
    /\ \E raised \in BOOLEAN :
          events' = Append(events, Event(test_no, "goto", LogoutUrl, raised))
    /\ fpc' = "next"
    /\ UNCHANGED <<fixture, n_tests, test_no, received, cached, browser,
                   context, scriptVars, learnVars>>

\* conftest.py lines 54-75: the setup of luma_test_class_page for the first
\* test of the class that asks for it; pytest keeps the page, or the
\* exception, for the other tests of the class
luma_test_class_page_setup ==
    /\ fixture = "luma_test_class_page"
    /\ fpc = "setup"
    /\ cached = "none"
    /\ browser' = "open"
    /\ context' = "open"
    /\ \E fail \in 0..Len(LoginSteps) :
          /\ events' = events
                \o << Event(test_no, "launch", "browser", FALSE),
                      Event(test_no, "new_context", "browser", FALSE),
                      Event(test_no, "new_page", "context", FALSE) >>
                \o login_events(test_no, fail)
          /\ IF fail = 0
             THEN /\ cached' = "value"
                  /\ received' = Append(received, [test |-> test_no, page |-> 1,
                                                   context |-> 1])
                  /\ fpc' = "call"
             ELSE /\ cached' = "error"
                  /\ received' = received
                  /\ fpc' = "next"
    /\ UNCHANGED <<fixture, n_tests, test_no, scriptVars, learnVars>>

\* a later test of the class: pytest hands out what it kept, the page or
\* the exception
luma_test_class_page_cached ==
    /\ fixture = "luma_test_class_page"
    /\ fpc = "setup"
    /\ cached # "none"
    /\ IF cached = "value"
       THEN /\ received' = Append(received, [test |-> test_no, page |-> 1,
                                             context |-> 1])
            /\ fpc' = "call"
       ELSE /\ received' = received
            /\ fpc' = "next"
    /\ UNCHANGED <<fixture, n_tests, test_no, events, cached, browser, context,
                   scriptVars, learnVars>>

\* pytest goes on to the next test of the class
next_test ==
    /\ fpc = "next"
    /\ test_no < n_tests
    /\ test_no' = test_no + 1
    /\ fpc' = "setup"
    /\ UNCHANGED <<fixture, n_tests, events, received, cached, browser, context,
                   scriptVars, learnVars>>

\* conftest.py lines 77-79: after the last test of the class, what follows
\* the yield of luma_test_class_page
luma_test_class_page_teardown ==
    /\ fixture = "luma_test_class_page"
    /\ fpc = "next"
    /\ test_no = n_tests
    /\ cached = "value"
    /\ events' = events \o << Event(test_no, "close", "context", FALSE),
                              Event(test_no, "close", "browser", FALSE) >>
    /\ context' = "closed"
    /\ browser' = "closed"
    /\ cached' = "none"
    /\ fpc' = "finished"
    /\ UNCHANGED <<fixture, n_tests, test_no, received, scriptVars, learnVars>>

\* after the last test of the class when no fixture is waiting behind a
\* yield: the function fixture, or the class fixture whose setup raised
end_of_class ==
    /\ fpc = "next"
    /\ test_no = n_tests
    /\ fixture = "luma_test_class_page" => cached = "error"
    /\ cached' = "none"
    /\ fpc' = "finished"
    /\ UNCHANGED <<fixture, n_tests, test_no, events, received, browser, context,
                   scriptVars, learnVars>>

NextFixture ==
    \/ luma_test_page_setup
    \/ run_test
    \/ luma_test_page_teardown
    \/ luma_test_class_page_setup
    \/ luma_test_class_page_cached
    \/ next_test
    \/ luma_test_class_page_teardown
    \/ end_of_class

SpecFixture == InitFixture /\ [][NextFixture]_vars

\* ==== properties ==============================================================
FlagNames == {"--headed", "--debug"}

\* the names of the registry in the order of the source table
RegistryNames(os) == [i \in 1..Len(CommandPairs(os)) |-> CommandPairs(os)[i][1]]

\* argv is run <name> with flags anywhere around the two words, and nothing else
IsFlaggedRun(a, i, j) ==
    /\ i < j
    /\ a[i] = "run"
    /\ a[j] \notin FlagNames
    /\ \A k \in (1..Len(a)) \ {i, j} : a[k] \in FlagNames

\* the name after run once the flags are set aside, "" when argv is not a
\* flagged run <name>
RunName(a) ==
    IF \E i, j \in 1..Len(a) : IsFlaggedRun(a, i, j)
    THEN LET p == CHOOSE p \in (1..Len(a)) \X (1..Len(a)) :
                     IsFlaggedRun(a, p[1], p[2])
         IN  a[p[2]]
    ELSE ""

\* C1: when the child exits with a non-zero status s, the runner prints a
\* diagnostic and exits with that same status s
C1_ChildStatusForwarded ==
    (pc = "done" /\ child = "exited" /\ 0 \notin child_status) =>
        /\ Len(stdout) > 0
        /\ exit_code = child_status

\* C2: when the name given after run is not a key of the registry, the
\* runner terminates with a non-zero exit code
C2_UnknownNameExitsNonZero ==
    (pc = "done" /\ RunName(argv) # "" /\
     ~Contains(RegistryNames(os_name), RunName(argv))) =>
        (exit_code # {} /\ 0 \notin exit_code)

\* C3: for a name that is not in the registry the runner prints a message
\* with the attempted name and all valid names in insertion order, and no
\* child process is spawned
C3_NotFoundReported ==
    LET name == RunName(argv)
        names == RegistryNames(os_name)
    IN  (name # "" /\ ~Contains(names, name)) =>
            /\ run_calls = <<>>
            /\ child = "none"
            /\ pc # "run_with_options"
            /\ pc = "done" =>
                  /\ Len(stdout) = 2
                  /\ Contains(stdout[1], name)
                  /\ Len(stdout[2]) = 2 * Len(names)
                  /\ \A i \in 1..Len(names) : stdout[2][2 * i] = names[i]

C3_Witness ==
    /\ pc = "done"
    /\ argv = <<"run", "--debug", "nope">>
    /\ stdout[1] = <<"Test '", "nope", "' not found.">>
    /\ stdout[2][2] = "all"
    /\ Last(stdout[2]) = "interactive_playwright"

\* C4: every name of the registry returned by get_test_commands maps to a
\* non-empty argument list
C4_InvocationsNonEmpty ==
    /\ Range(commands.keys) = DOMAIN commands.map
    /\ \A name \in DOMAIN commands.map : Len(commands.map[name]) > 0

C4_Witness ==
    /\ pc = "run_with_options"
    /\ Len(commands.keys) = Len(CommandPairs(os_name))
    /\ commands.map["basics"][4] = "tests/test_examples/test_01_basics.py"

\* C5: wherever --headed and --debug stand around run <name>, the name
\* resolved is the one resolved without them, and headed and debug are set
\* exactly when the flag is on the command line
C5_FlagsAnywhere ==
    pc \notin {"start", "dispatch"} =>
        \A i, j \in 1..Len(argv) :
            IsFlaggedRun(argv, i, j) =>
                /\ test_name = argv[j]
                /\ headed = (\E k \in 1..Len(argv) : argv[k] = "--headed")
                /\ debug = (\E k \in 1..Len(argv) : argv[k] = "--debug")

C5_Witness ==
    /\ argv = <<"run", "--headed", "basics">>
    /\ pc = "subprocess_run"
    /\ test_name = "basics"
    /\ headed
    /\ ~debug

\* C6: an empty argv and an argv that starts with help, whatever follows,
\* give the usage text, no child process and exit status 0
C6_HelpMode ==
    (IF Len(argv) = 0 THEN TRUE ELSE argv[1] = "help") =>
        /\ run_calls = <<>>
        /\ child = "none"
        /\ pc \in {"start", "done"}
        /\ pc = "done" => (stdout = print_help /\ exit_code = {0})

C6_Witness ==
    /\ pc = "done"
    /\ argv = <<"help", "--headed", "run", "all">>
    /\ Len(stdout) = 13
    /\ stdout[1] = <<"\nAvailable commands:">>
    /\ exit_code = {0}

\* the entry of the registry for the name that follows run, as the table
\* gives it
RegistryEntry(os, name) ==
    LET i == CHOOSE i \in 1..Len(CommandPairs(os)) : CommandPairs(os)[i][1] = name
    IN  CommandPairs(os)[i][2]

\* C7: with --headed and without --debug the child is given the registry
\* invocation followed by the one argument "--headed"
C7_HeadedAppended ==
    (Contains(argv, "--headed") /\ ~Contains(argv, "--debug") /\
     run_calls # <<>>) =>
        /\ Len(run_calls) = 1
        /\ run_calls[1] = RegistryEntry(os_name, test_name) \o <<"--headed">>

C7_Witness ==
    /\ argv = <<"run", "basics", "--headed">>
    /\ os_name = "posix"
    /\ child = "running"
    /\ run_calls = << <<"venv/bin/pytest", "-v", "-s",
                        "tests/test_examples/test_01_basics.py", "--headed">> >>

\* C8: with --debug the child is given the registry invocation followed by
\* "--slowmo", "1000"; with --headed too, "--headed" stands before
\* "--slowmo", whatever the order of the flags on the command line
C8_SlowmoAppended ==
    (Contains(argv, "--debug") /\ run_calls # <<>>) =>
        /\ Len(run_calls) = 1
        /\ run_calls[1] =
              RegistryEntry(os_name, test_name) \o
              (IF Contains(argv, "--headed") THEN <<"--headed">> ELSE <<>>) \o
              <<"--slowmo", "1000">>

C8_Witness ==
    /\ argv = <<"--debug", "run", "all", "--headed">>
    /\ os_name = "posix"
    /\ child = "running"
    /\ run_calls = << <<"venv/bin/pytest", "-v", "-s", "tests",
                        "--headed", "--slowmo", "1000">> >>

\* C9: run all without flags spawns the registry entry of "all" unchanged:
\* its target is the directory "tests" and it has no --headed and no --slowmo
C9_RunAllPlain ==
    (argv = <<"run", "all">> /\ run_calls # <<>>) =>
        /\ Len(run_calls) = 1
        /\ run_calls[1] = RegistryEntry(os_name, "all")
        /\ Last(run_calls[1]) = "tests"
        /\ ~Contains(run_calls[1], "--headed")
        /\ ~Contains(run_calls[1], "--slowmo")

C9_Witness ==
    /\ argv = <<"run", "all">>
    /\ os_name = "nt"
    /\ child = "exited"
    /\ run_calls = << <<"venv\\Scripts\\pytest", "-v", "-s", "tests">> >>

\* C10: when the executable cannot be located the runner prints the hint to
\* activate the virtual environment and exits non-zero, with the one call of
\* subprocess.run and no other
C10_MissingExecutable ==
    /\ (run_calls # <<>> /\ ~pytest_found) => child = "missing"
    /\ child = "missing" =>
          /\ pc = "done"
          /\ Len(run_calls) = 1
          /\ exit_code # {}
          /\ 0 \notin exit_code
          /\ Len(stdout) = 2
          /\ stdout[1] = <<"Error: pytest not found. Make sure you have activated the virtual environment:">>
          /\ stdout[2] \in { <<"  Run: source venv/bin/activate">>,
                             <<"  Run: .\\venv\\Scripts\\activate">> }

C10_Witness ==
    /\ child = "missing"
    /\ argv = <<"run", "basics">>
    /\ os_name = "posix"
    /\ stdout[2] = <<"  Run: source venv/bin/activate">>
    /\ exit_code = {1}

\* the words of argv that are not flags, in order
RECURSIVE Positional(_)
Positional(a) ==
    IF Len(a) = 0 THEN <<>>
    ELSE IF Head(a) \in FlagNames THEN Positional(Tail(a))
    ELSE <<Head(a)>> \o Positional(Tail(a))

\* argv is run <registered name> once the flags are set aside
IsValidRun(a, os) ==
    LET p == Positional(a)
    IN  IF Len(p) >= 2
        THEN p[1] = "run" /\ \E i \in 1..Len(CommandPairs(os)) :
                                 CommandPairs(os)[i][1] = p[2]
        ELSE FALSE

\* C11: at most one child process per run: one when argv without its flags
\* is run <registered name>, none otherwise; the runner does not exit while
\* the child runs and never calls subprocess.run a second time
C11_AtMostOneChild ==
    /\ Len(run_calls) <= 1
    /\ exit_code # {} => child # "running"
    /\ pc = "wait" => (child = "running" /\ exit_code = {})
    /\ run_calls # <<>> => IsValidRun(argv, os_name)
    /\ pc = "done" => (Len(run_calls) = 1 <=> IsValidRun(argv, os_name))

C11_Witness ==
    /\ pc = "done"
    /\ argv = <<"--debug", "run", "basics">>
    /\ child = "exited"
    /\ child_status = {2}
    /\ Len(run_calls) = 1

\* the names the printed rows describe
NamesPrinted == {stdout[i][2] : i \in {j \in 1..Len(stdout) : Len(stdout[j]) = 3}}

IsHelpArgv == IF Len(argv) = 0 THEN TRUE ELSE argv[1] = "help"

\* C12 as stated: help (or no arguments) prints every name of the
\* registry and the descriptions of --headed and --debug, and exits 0
C12_HelpListsEveryName ==
    (IsHelpArgv /\ pc = "done") =>
        /\ \A i \in 1..Len(CommandPairs(os_name)) :
              CommandPairs(os_name)[i][1] \in NamesPrinted
        /\ FlagNames \subseteq NamesPrinted
        /\ exit_code = {0}

\* C12 as amended: help (or no arguments) prints rows for the five names
\* all, interactive, test_examples, basics and data_types only, then the
\* line "... and more individual tests", and the descriptions of
\* --headed and --debug, and exits 0
C12_HelpListsFiveNames ==
    (IsHelpArgv /\ pc = "done") =>
        /\ NamesPrinted = {"all", "interactive", "test_examples", "basics",
                           "data_types"} \cup FlagNames
        /\ \E i \in 1..Len(stdout) :
              stdout[i] = <<"  ... and more individual tests">>
        /\ exit_code = {0}

C12_Witness ==
    /\ pc = "done"
    /\ argv = <<>>
    /\ "data_types" \in NamesPrinted
    /\ "functions" \notin NamesPrinted
    /\ exit_code = {0}

\* C16: run_with_options leaves the list it was given as it was: after the
\* call the entry of commands still equals the entry of the table
C16_CommandUnchanged ==
    (pc \in {"subprocess_run", "wait", "done"} /\ InDict(commands, test_name)) =>
        commands.map[test_name] = RegistryEntry(os_name, test_name)

\* C18: a run ends in exactly one outcome and its exit code is 0 exactly
\* when the outcome is Help or a successful dispatch
C18_ExitCodeByOutcome ==
    pc = "done" =>
        /\ Cardinality(exit_code) = 1
        /\ exit_code = {0} <=> (IsHelpArgv \/ (child = "exited" /\ child_status = {0}))

\* C19: an argv whose first positional word is neither run nor help, or that
\* is run without a name, prints "Invalid command." and the usage, never
\* builds the registry and never spawns a child
C19_InvalidCommand ==
    LET p == Positional(argv)
    IN  (IF Len(p) = 0 THEN FALSE
         ELSE p[1] \notin {"run", "help"} \/ p = <<"run">>) =>
            /\ commands = EmptyDict
            /\ test_name = ""
            /\ run_calls = <<>>
            /\ child = "none"
            /\ pc \notin {"run_with_options", "subprocess_run", "wait"}
            /\ pc = "done" =>
                  /\ stdout[1] = <<"Invalid command.">>
                  /\ Len(stdout) = 14
                  /\ SubSeq(stdout, 2, Len(stdout)) = print_help

C19_Witness ==
    /\ pc = "done"
    /\ argv = <<"all", "--headed", "basics">>
    /\ stdout[1] = <<"Invalid command.">>
    /\ stdout[2] = <<"\nAvailable commands:">>
    /\ commands = EmptyDict

\* C17: any two calls of get_test_commands return equal tables, the table of
\* the source, also after run_with_options has appended flags to a list of an
\* earlier table; no list is shared by two entries or by two tables, nor is
\* base_cmd an entry
C17_SameTableEveryCall ==
    /\ \A i, j \in 1..Len(returned) : returned[i] = returned[j]
    /\ \A i \in 1..Len(returned) :
          /\ returned[i].keys = RegistryNames(os_name)
          /\ \A name \in DOMAIN returned[i].map :
                returned[i].map[name] = RegistryEntry(os_name, name)
    /\ \A t1, t2 \in 1..Len(tables) :
          \A n1 \in DOMAIN tables[t1].map, n2 \in DOMAIN tables[t2].map :
             (tables[t1].map[n1] = tables[t2].map[n2]) => (t1 = t2 /\ n1 = n2)

C17_Witness ==
    /\ Len(returned) = 2
    /\ heap[tables[1].map["all"]] = RegistryEntry(os_name, "all") \o <<"--headed">>
    /\ heap[tables[2].map["all"]] = RegistryEntry(os_name, "all")
    /\ returned[2].map["all"] = RegistryEntry(os_name, "all")

\* C13: learn_print writes its positional arguments joined by sep to stderr,
\* between the blank line before and the end and blank line after, and
\* nothing to stdout, for any number of arguments
C13_LearnPrintToStderr ==
    last_call.op = "learn_print" =>
        LET a == last_call.args
            s == last_call.sep
            step == 1 + Len(s)
        IN  /\ sys_stdout = <<>>
            /\ Len(sys_stderr) =
                  3 + Len(a) + (IF Len(a) = 0 THEN 0 ELSE (Len(a) - 1) * Len(s))
            /\ \A i \in 1..Len(a) :
                  /\ sys_stderr[2 + (i - 1) * step] = a[i][1]
                  /\ i < Len(a) =>
                        SubSeq(sys_stderr, 3 + (i - 1) * step,
                               1 + i * step) = s

C13_Witness ==
    /\ last_call.op = "learn_print"
    /\ last_call.args = << <<"Hello">>, <<"Python">>, <<"World">> >>
    /\ sys_stderr = <<"\n", "Hello", " ", "Python", " ", "World", " ", "\n">>
    /\ sys_stdout = <<>>

\* C20: in select_theme, when the user answers the question whether to keep
\* the previewed theme with something that does not start with y, the current
\* theme is again the one that was current before the preview, and the prompt
\* for a theme is shown again
C20_DeclineReverts ==
    (last_call.op = "select_theme" /\ last_call.event = "declined") =>
        /\ CURRENT_THEME = last_call.before
        /\ lpc = "theme_input"

\* positions of the events that satisfy a condition
Logouts == {i \in 1..Len(events) : events[i].target = LogoutUrl}
Bodies == {i \in 1..Len(events) : events[i].op = "test"}
LoginsDone == {i \in 1..Len(events) :
                 /\ events[i].op = "click"
                 /\ events[i].target = "#send2"
                 /\ ~events[i].raised}
LoginCalls == {i \in 1..Len(events) :
                 \/ events[i].target = LoginUrl
                 \/ events[i].op \in {"fill", "click"}}

\* the four events before position i are the login of test t, in order
LoggedInBefore(i, t) ==
    IF i <= 4 THEN FALSE
    ELSE /\ events[i - 4] = Event(t, "goto", LoginUrl, FALSE)
         /\ events[i - 3] = Event(t, "fill", "#email", FALSE)
         /\ events[i - 2] = Event(t, "fill", "#pass", FALSE)
         /\ events[i - 1] = Event(t, "click", "#send2", FALSE)

\* what C14 says of every test: login in order before the body, logout
\* after it and before anything of the next test
SessionPerTest ==
    /\ \A i \in Bodies :
          /\ LoggedInBefore(i, events[i].test)
          /\ IF i < Len(events)
             THEN events[i + 1].target = LogoutUrl /\
                  events[i + 1].test = events[i].test
             ELSE fpc = "teardown"
    /\ \A i \in Logouts : IF i = 1 THEN FALSE ELSE (i - 1) \in Bodies
    /\ \A i, j \in 1..Len(events) : i < j => events[i].test <= events[j].test
    /\ \A i, j \in 1..Len(received) : i # j => received[i].page # received[j].page

\* C14 as stated: with luma_test_page every test logs in (four steps in
\* order) before its body and logs out after it, and a run of n tests
\* performs n logins and n logouts
C14_NLoginsNLogouts ==
    fixture = "luma_test_page" =>
        /\ SessionPerTest
        /\ fpc = "finished" =>
              /\ Cardinality(LoginsDone) = n_tests
              /\ Cardinality(Logouts) = n_tests

\* C14 as amended: with luma_test_page every test whose login completes
\* runs the four login steps in order before its body and the logout after
\* its body (also when the body fails) and before the next test's login; a
\* test whose login step raises has no body and no logout, so a run of n
\* tests performs as many logouts as logins completed, n when no login step
\* raises
C14_FreshSessionPerTest ==
    fixture = "luma_test_page" =>
        /\ SessionPerTest
        /\ fpc = "finished" =>
              /\ Cardinality(Logouts) = Cardinality(LoginsDone)
              /\ Cardinality(Bodies) = Cardinality(LoginsDone)
              /\ (\A i \in LoginCalls : ~events[i].raised) =>
                    Cardinality(Logouts) = n_tests

C14_Witness ==
    /\ fixture = "luma_test_page"
    /\ fpc = "finished"
    /\ n_tests = 2
    /\ Cardinality(Logouts) = 2
    /\ Len(events) = 12
    /\ events[5] = Event(1, "test", TestUrls[1], FALSE)
    /\ events[6] = Event(1, "goto", LogoutUrl, FALSE)
    /\ events[7] = Event(2, "goto", LoginUrl, FALSE)

\* C15: luma_test_class_page logs in exactly once per class: every test gets
\* the same page of the same context, no login step runs between two tests,
\* and the context and then the browser are closed exactly once, after the
\* last test of the class
C15_OneLoginPerClass ==
    fixture = "luma_test_class_page" =>
        /\ \A i, j \in 1..Len(received) :
              received[i].page = received[j].page /\
              received[i].context = received[j].context
        /\ \A i, j \in Bodies : \A k \in LoginCalls : ~(i < k /\ k < j)
        /\ Cardinality({i \in 1..Len(events) : events[i].target = LoginUrl}) <= 1
        /\ fpc = "finished" =>
              /\ Cardinality(LoginsDone) = 1
              /\ \E c, b \in 1..Len(events) :
                    /\ events[c] = Event(n_tests, "close", "context", FALSE)
                    /\ events[b] = Event(n_tests, "close", "browser", FALSE)
                    /\ c < b
                    /\ \A i \in Bodies : i < c
                    /\ \A i \in 1..Len(events) :
                          events[i].op = "close" => i \in {c, b}
              /\ browser = "closed"
              /\ context = "closed"

\* the keys of the dict THEMES (lines 47-58)
ThemeKeys == {"monokai", "one-dark", "solarized-dark", "solarized-light",
              "dracula", "gruvbox-dark", "gruvbox-light", "nord", "vs",
              "zenburn"}

\* C21: set_theme(n) returns True and makes n the current theme exactly when
\* n is a key of THEMES, otherwise it returns False and leaves the current
\* theme as it was; so CURRENT_THEME is a key of THEMES after any sequence
\* of set_theme and select_theme calls
C21_ThemeIsAlwaysAKey ==
    /\ CURRENT_THEME \in ThemeKeys
    /\ last_call.op = "set_theme" =>
          /\ last_call.result <=> last_call.theme_name \in ThemeKeys
          /\ last_call.result => CURRENT_THEME = last_call.theme_name
          /\ ~last_call.result => CURRENT_THEME = last_call.before

C21_Witness ==
    /\ last_call.op = "set_theme"
    /\ last_call.theme_name = "Monokai"
    /\ ~last_call.result
    /\ last_call.before = "dracula"
    /\ CURRENT_THEME = "dracula"

\* the lines of a code block as written by the lesson, the numbers of those
\* that are not blank, and the largest of a set of numbers
GivenLines(code) == Split(code)
NonBlank(lines) == {i \in 1..Len(lines) : Strip(lines[i]) # <<>>}
Max(S) == CHOOSE x \in S : \A y \in S : y <= x

\* C22: for a block whose first non-blank line is indented by k and whose
\* other non-blank lines are indented by at least k, print_code_block prints
\* every line with its indentation minus k plus the requested indent, so the
\* difference of indentation between two lines is the same as in the block
C22_CommonIndentRemoved ==
    last_call.op = "print_code_block" =>
        LET given == GivenLines(last_call.code)
            nb == NonBlank(given)
        IN  nb # {} =>
            LET f == Min(nb)
                l == Max(nb)
                k == Indentation(given[f])
            IN  (\A i \in nb : Indentation(given[i]) >= k) =>
                    /\ last_call.raised = ""
                    /\ Len(last_call.printed) = l - f + 1
                    /\ \A i \in nb :
                          Indentation(last_call.printed[i - f + 1]) =
                              Indentation(given[i]) - k + last_call.indent

\* C23: when highlighting with the current theme raises, print_code_block
\* lets no exception escape: it prints the theme-error message, then every
\* line of the code without colours and with the requested indentation, and
\* the closing blank line
C23_FallbackOnThemeError ==
    (/\ last_call.op = "print_code_block"
     /\ NonBlank(GivenLines(last_call.code)) # {}
     /\ CURRENT_THEME \notin styles) =>
        LET message == color_print(<<"Theme error: ", "Could not find style module ",
                                     CURRENT_THEME,
                                     ". Falling back to basic formatting.">>, RED)
            blank == lprint(<< <<>> >>)
            code_lines == [i \in 1..Len(last_call.lines) |->
                             Spaces(last_call.indent) \o last_call.lines[i]]
        IN  /\ last_call.raised = ""
            /\ last_call.printed = code_lines
            /\ sys_stderr = blank \o message
                            \o JoinText([i \in 1..Len(code_lines) |->
                                           lprint(<<code_lines[i]>>)], <<>>)
                            \o blank

\* C30: print_code_block raises for no code string before it reaches the
\* highlighter: for the empty string and for a string of blanks and newlines
\* it prints the opening and the closing blank line and no code line
C30_BlankCodeAccepted ==
    last_call.op = "print_code_block" =>
        /\ last_call.raised = ""
        /\ NonBlank(GivenLines(last_call.code)) = {} =>
              LET blank == lprint(<< <<>> >>)
                  n == Len(sys_stderr)
              IN  /\ n >= 2 * Len(blank)
                  /\ SubSeq(sys_stderr, 1, Len(blank)) = blank
                  /\ SubSeq(sys_stderr, n - Len(blank) + 1, n) = blank
                  /\ \A i \in 1..Len(last_call.printed) :
                        Strip(last_call.printed[i]) = <<>>

\* the mode a finished dispatch shows: the usage alone, the invalid-command
\* message, or a name looked up in the registry
ModeShown ==
    IF stdout = print_help THEN [kind |-> "Help", name |-> ""]
    ELSE IF (IF Len(stdout) = 0 THEN FALSE ELSE stdout[1] = <<"Invalid command.">>)
         THEN [kind |-> "Error", name |-> ""]
         ELSE [kind |-> "Dispatch", name |-> test_name]

\* the mode of a command line that holds no flag
ModeWithoutFlags(p) ==
    IF Len(p) = 0 THEN [kind |-> "Help", name |-> ""]
    ELSE IF p[1] = "help" THEN [kind |-> "Help", name |-> ""]
    ELSE IF Len(p) >= 2 /\ p[1] = "run" THEN [kind |-> "Dispatch", name |-> p[2]]
    ELSE [kind |-> "Error", name |-> ""]

\* C24: the mode chosen for argv is the mode chosen for argv with every
\* --headed and --debug removed, wherever the flags stand: flags alone give
\* the usage as an empty argv does, --headed help gives it as help does
C24_ModeIgnoresFlags ==
    pc \notin {"start", "dispatch"} =>
        ModeShown = ModeWithoutFlags(Positional(argv))

\* C25: every question of the lessons has an accepted answer that
\* get_user_input can return, that is one without upper-case letters and
\* without blanks around it, so that some typed line makes check_answer
\* return True
C25_EveryQuestionAnswerable ==
    last_call.op = "check_answer" =>
        \E i \in 1..Len(last_call.accepted) :
            /\ get_user_input(last_call.accepted[i]) = last_call.accepted[i]
            /\ check_answer(get_user_input(last_call.accepted[i]),
                            last_call.accepted, ExplanationText).result

\* C26: the theme the package tests.utils exports is the theme used for
\* highlighting, after any sequence of set_theme and select_theme calls
C26_ExportedThemeIsCurrent ==
    utils_CURRENT_THEME = CURRENT_THEME

\* C27: every name of the registry selects a target that exists: the path
\* that follows the base command is a directory or a file of the source tree
C27_TargetsExist ==
    commands # EmptyDict =>
        \A i \in 1..Len(commands.keys) :
            commands.map[commands.keys[i]][Len(base_cmd(os_name)) + 1]
                \in SourceTree

\* text ends with the text tail
EndsWith(text, tail) ==
    IF Len(text) < Len(tail) THEN FALSE
    ELSE SubSeq(text, Len(text) - Len(tail) + 1, Len(text)) = tail

\* the line read by a step of select_theme, stripped and in lower case
TypedWord == Str(Lower(Strip(last_call'.line)))
TypedYes ==
    LET w == Lower(Strip(last_call'.line))
    IN  IF Len(w) = 0 THEN FALSE ELSE w[1] = "y"

\* C28 for one step of select_theme: it returns only on cancel at the theme
\* prompt or on an answer starting with y after a valid theme name; an
\* invalid name and a declined preview lead to the theme prompt again;
\* cancel leaves CURRENT_THEME as it is
SelectThemeStep ==
    /\ (lpc = "theme_input" /\ lpc' = "idle") =>
          (TypedWord = "cancel" /\ CURRENT_THEME' = CURRENT_THEME)
    /\ (lpc = "keep_input" /\ lpc' = "idle") => TypedYes
    /\ (lpc = "theme_input" /\ lpc' = "keep_input") => TypedWord \in ThemeKeys
    /\ (lpc = "theme_input" /\ prompts' # prompts
          /\ TypedWord \notin ThemeKeys \cup {"cancel"}) =>
          (lpc' = "theme_input" /\ EndsWith(sys_stderr', ThemePrompt))
    /\ (lpc = "keep_input" /\ prompts' # prompts /\ ~TypedYes) =>
          (lpc' = "theme_input" /\ EndsWith(sys_stderr', ThemePrompt))
    /\ (lpc = "theme_input" /\ prompts' # prompts /\ TypedWord = "cancel") =>
          (lpc' = "idle" /\ CURRENT_THEME' = CURRENT_THEME)

\* C28: select_theme returns only after cancel or after a valid theme name
\* confirmed with y; invalid names and declined previews ask again; when the
\* input holds cancel at a theme prompt the loop ends; cancel never changes
\* CURRENT_THEME
C28_SelectThemeReturns ==
    /\ [][SelectThemeStep]_vars
    /\ (lpc # "idle") ~> (lpc = "idle")

C28_Witness ==
    /\ lpc = "idle"
    /\ last_call.op = "select_theme"
    /\ last_call.event = "cancel"
    /\ last_call.line = <<"c", "a", "n", "c", "e", "l">>
    /\ prompts = 3
    /\ CURRENT_THEME = "vs"

\* C29: once the class is finished nothing that luma_test_class_page
\* launched or created is left open, whether the login went through or one
\* of its steps raised before the yield
C29_BrowserAlwaysClosed ==
    (fixture = "luma_test_class_page" /\ fpc = "finished") =>
        /\ browser \in {"none", "closed"}
        /\ context \in {"none", "closed"}
        /\ \A i \in 1..Len(events) :
              events[i].op = "launch" =>
                  \E j \in (i + 1)..Len(events) :
                      events[j].op = "close" /\ events[j].target = "browser"

====
